---- MODULE Spec2Model ----
(***************************************************************************)
(* Casal em Dias: the month/expense reconciliation layer (FinanceAPI in    *)
(* services/financeService.ts) against the remote store, and the autosave  *)
(* path of App.tsx (debounce, save trigger effect, loadData).              *)
(*                                                                         *)
(* A remote call is one atomic step: the store executes the request and    *)
(* the caller's continuation runs up to its next await.  A failed remote   *)
(* call leaves the store unchanged and hands the caller an error.          *)
(*                                                                         *)
(* The specifications share the variables: Spec (FinanceAPI called         *)
(* directly, one call at a time), SpecRace (overlapping save calls),       *)
(* SpecApp (a session of App.tsx with its timers and handlers),            *)
(* SpecSession (the session changes hands between users), SpecMonths (the  *)
(* life of the months of a session) and SpecPure (the totals and the       *)
(* accumulated savings as functions of their argument).                    *)
(***************************************************************************)
EXTENDS Integers, Sequences, FiniteSets, TLC

VARIABLES
    monthsTable,      \* remote table public.months: a set of rows
    expensesTable,    \* remote table public.expenses: a set of rows
    calls,            \* FinanceAPI calls in flight or finished, per slot
    started,          \* number of save calls (saveMonth, saveMonths) started
    generated,        \* number of expense ids the store generated so far
    upserted,         \* history: per (user_id, month_code), the payload of
                      \* the latest Month upsert that succeeded
    lastClean,        \* history: the last saveMonth that ran alone and
                      \* without any remote failure, with the store it left
    lastUpsertBy,     \* history: the slot of the call whose Expense upsert
                      \* completed last (0: none)
    user,             \* App state: the id of the authenticated user, "" for null
    months,           \* App state: the in-memory Month collection
    currentMonthId,   \* App state
    dataLoading,      \* App state
    saveStatus,       \* App state: idle, saving, saved, error
    timeout,          \* the timer id held by the closure of debounce (0: none)
    debounceTimers,   \* the pending timers set by the debounced save
    resetTimers,      \* the pending setSaveStatus('idle') timers: time left
    nextUuid,         \* the next id uuidv4() returns
    actions,          \* number of user and session events so far
    burst,            \* history: the last call of the debounced save, the time
                      \* since, and the executions of the action since
    unsaved,          \* history: ids of the in-memory months changed locally
                      \* whose latest state was not passed to saveMonth
    slowTicks,        \* number of ticks that passed with a remote call in flight
    failures,         \* history: the remote calls of the application that failed
    owner,            \* history: the user the in-memory months were loaded or
                      \* created for
    deleted,          \* history: ids of the months the user deleted
    arg,              \* the argument of a call of a pure function
    ret               \* what the call returned

pureVars == <<arg, ret>>

appVars ==
    <<user, months, currentMonthId, dataLoading, saveStatus, timeout, debounceTimers,
      resetTimers, nextUuid, actions, burst, unsaved, slowTicks, failures, owner,
      deleted, pureVars>>

vars ==
    <<monthsTable, expensesTable, calls, started, generated, upserted, lastClean,
      lastUpsertBy, appVars>>

-----------------------------------------------------------------------------
(* Bounds and input domains                                                *)

\* FinanceAPI.saveMonth and saveMonths calls made directly
MaxSaves == 2

\* session events and handler invocations of the application
MaxActions == 3

\* remote calls of the application that answer with an error
MaxFailures == 1

\* ticks of the clock that pass while a remote call of the application is in
\* flight
MaxSlowTicks == 0

Procs == {1, 2}

Users == {"u1", "u2"}

\* (user, month id) pairs the inputs range over
Keys == {<<"u1", "2025-03">>, <<"u1", "2025-04">>, <<"u2", "2025-03">>}

\* Expense ids the client generated (uuidv4) for the expenses of each month
ClientIds(u, code) ==
    IF u = "u1" /\ code = "2025-03" THEN {1, 2}
    ELSE IF u = "u1" /\ code = "2025-04" THEN {3}
    ELSE {4}

ValuesOf(id) == IF id = 1 THEN {2000, 1500} ELSE {500}

TypeOf(id) == IF id = 1 THEN "fixed" ELSE "variable"

NameOf(id) == IF id = 1 THEN "Aluguel" ELSE "Mercado"

CategoryOf(id) == IF id = 1 THEN "Moradia" ELSE "Outros"

DateOf(id, code) == IF id = 1 THEN <<code, 5>> ELSE <<code, 17>>

\* types.ts Expense
MkExpense(id, v, code) ==
    [id |-> id, name |-> NameOf(id), value |-> v, category |-> CategoryOf(id),
     date |-> DateOf(id, code), type |-> TypeOf(id)]

ExpensePool(u, code) ==
    UNION {{MkExpense(id, v, code) : v \in ValuesOf(id)} : id \in ClientIds(u, code)}

\* the expense lists a client month can hold: distinct ids, in id order
ExpenseLists(u, code) ==
    {s \in UNION {[1..n -> ExpensePool(u, code)] : n \in 0..Cardinality(ClientIds(u, code))} :
        \A i, j \in DOMAIN s : i < j => s[i].id < s[j].id}

\* (salary1, salary2, closed) of the input months
MonthVersions(u, code) ==
    IF u = "u1" /\ code = "2025-03"
    THEN {<<5000, 3000, FALSE>>, <<5200, 3500, TRUE>>}
    ELSE {<<4000, 0, FALSE>>}

\* getMonthLabel (financeService.ts:15-17): month name and year of the date
getMonthLabel(code) ==
    IF code = "2025-03" THEN "Marco 2025"
    ELSE IF code = "2025-04" THEN "Abril 2025"
    ELSE "Maio 2025"

\* types.ts MonthData
MkMonth(code, ver, exps) ==
    [id |-> code, label |-> getMonthLabel(code), salary1 |-> ver[1],
     salary2 |-> ver[2], expenses |-> exps, closed |-> ver[3]]

\* the in-memory months a client of user u can hold for month id code
Snapshots(u, code) ==
    {MkMonth(code, ver, exps) : ver \in MonthVersions(u, code),
                                exps \in ExpenseLists(u, code)}

NoMonth == [id |-> "", label |-> "", salary1 |-> 0, salary2 |-> 0,
            expenses |-> <<>>, closed |-> FALSE]

Range(s) == {s[i] : i \in DOMAIN s}

\* every sequence that lists the set S once
Orderings(S) ==
    {s \in [1..Cardinality(S) -> S] : Range(s) = S}

-----------------------------------------------------------------------------
(* The remote store (supabase): public.months, unique on (user_id,         *)
(* month_code); public.expenses, primary key id                            *)

NextMonthRowId(table) ==
    IF table = {} THEN 1
    ELSE 1 + (CHOOSE n \in {r.id : r \in table} : \A r \in table : r.id <= n)

\* the payload of .from('months').upsert({...})
MonthPayload(userId, month) ==
    [user_id |-> userId, month_code |-> month.id, label |-> month.label,
     salary1 |-> month.salary1, salary2 |-> month.salary2, closed |-> month.closed]

SameKey(r, payload) ==
    r.user_id = payload.user_id /\ r.month_code = payload.month_code

MonthRowOf(id, payload) ==
    [id |-> id, user_id |-> payload.user_id, month_code |-> payload.month_code,
     label |-> payload.label, salary1 |-> payload.salary1,
     salary2 |-> payload.salary2, closed |-> payload.closed]

\* mutant of UpsertMonth: a plain insert, which adds a row even when the
\* (user_id, month_code) pair exists
UpsertMonthAsInsert(table, payload) ==
    table \cup {MonthRowOf(NextMonthRowId(table), payload)}

\* mutant of UpsertMonth: ignoreDuplicates, which keeps the existing row
UpsertMonthIgnoreDuplicates(table, payload) ==
    IF \E r \in table : SameKey(r, payload)
    THEN table
    ELSE table \cup {MonthRowOf(NextMonthRowId(table), payload)}

\* .upsert(payload, { onConflict: 'user_id, month_code' })
UpsertMonth(table, payload) ==
    IF \E r \in table : SameKey(r, payload)
    THEN {IF SameKey(r, payload) THEN MonthRowOf(r.id, payload) ELSE r : r \in table}
    ELSE table \cup {MonthRowOf(NextMonthRowId(table), payload)}

\* .select().single() after the upsert: the row written
SavedMonth(table, payload) == CHOOSE r \in table : SameKey(r, payload)

\* .from('expenses').select('id').eq('month_id', monthUUID)
ExistingIds(table, monthUUID) == {e.id : e \in {x \in table : x.month_id = monthUUID}}

CurrentIds(month) == {e.id : e \in Range(month.expenses)}

\* mutant of ToDelete: the removed ids are not computed
ToDeleteNothing(existingIds, currentIds) == {}

\* [...existingIds].filter(id => !currentIds.has(id))
ToDelete(existingIds, currentIds) == existingIds \ currentIds

\* .from('expenses').delete().in('id', toDelete)
DeleteByIds(table, ids) == {e \in table : e.id \notin ids}

ExpenseRow(e, userId, monthUUID) ==
    [id |-> e.id, user_id |-> userId, month_id |-> monthUUID, name |-> e.name,
     value |-> e.value, category |-> e.category, date |-> e.date, type |-> e.type]

\* month.expenses.map(e => ({ id: e.id, user_id, month_id, ... }))
ExpensesToUpsert(userId, monthUUID, month) ==
    {ExpenseRow(e, userId, monthUUID) : e \in Range(month.expenses)}

\* .from('expenses').upsert(rows, { onConflict: 'id' })
UpsertExpenses(table, rows) ==
    {e \in table : e.id \notin {r.id : r \in rows}} \cup rows

\* .from('months').select('*').eq('user_id', userId)
SelectMonths(table, userId) == {r \in table : r.user_id = userId}

\* .from('expenses').select('*').in('month_id', monthIds)
SelectExpensesIn(table, monthIds) == {e \in table : e.month_id \in monthIds}

\* one element of monthExpenses.map(e => ({ id, name, value, ... }))
ExpenseOfRow(e) ==
    [id |-> e.id, name |-> e.name, value |-> e.value, category |-> e.category,
     date |-> e.date, type |-> e.type]

\* mutant of JoinMonth: the expenses are not filtered by month_id
JoinMonthUnfiltered(m, expensesData) ==
    [id |-> m.month_code, label |-> m.label, salary1 |-> m.salary1,
     salary2 |-> m.salary2,
     expenses |-> [i \in 1..Len(expensesData) |-> ExpenseOfRow(expensesData[i])],
     closed |-> m.closed]

\* one element of monthsData.map(m => ({ id: m.month_code, ... })); expensesData
\* is the sequence of expense rows in the order the store returned them
JoinMonth(m, expensesData) ==
    [id |-> m.month_code, label |-> m.label, salary1 |-> m.salary1,
     salary2 |-> m.salary2,
     expenses |-> [i \in 1..Len(SelectSeq(expensesData, LAMBDA e : e.month_id = m.id))
                     |-> ExpenseOfRow(SelectSeq(expensesData, LAMBDA e : e.month_id = m.id)[i])],
     closed |-> m.closed]

JoinMonths(monthsData, expensesData) ==
    [i \in 1..Len(monthsData) |-> JoinMonth(monthsData[i], expensesData)]

\* .from('expenses').delete().eq('month_id', monthUUID)
DeleteByMonth(table, monthUUID) == {e \in table : e.month_id # monthUUID}

\* the ids the store gives to rows inserted without one: never used before
GeneratedId(n) == 0 - n

\* .from('expenses').insert(expensesToInsert) of saveMonths: the rows carry
\* no id (financeService.ts:156-172), the store generates one per row;
\* n ids were generated before
InsertExpenses(table, userId, monthUUID, month, n) ==
    table \cup {[ExpenseRow(month.expenses[i], userId, monthUUID)
                    EXCEPT !.id = GeneratedId(n + i)] : i \in DOMAIN month.expenses}

\* the history of successful Month upserts after one more
WithUpserted(set, payload) ==
    {u \in set : ~SameKey(u, payload)} \cup {payload}

-----------------------------------------------------------------------------
(* FinanceAPI calls.  calls[p].pc names the remote call the invocation is   *)
(* waiting on.  issued, failed, overlapped and prev are history fields.     *)

NoClean ==
    [userId |-> "", month |-> NoMonth, months |-> {}, expenses |-> {},
     prevUserId |-> "", prevMonth |-> NoMonth, prevMonths |-> {}, prevExpenses |-> {}]

IdleCall ==
    [kind |-> "none", pc |-> "idle", caller |-> "none", userId |-> "", month |-> NoMonth,
     months |-> <<>>, monthUUID |-> 0, existingIds |-> {}, monthsData |-> <<>>, result |-> <<>>,
     error |-> "none", status |-> "", issued |-> {}, failed |-> {},
     overlapped |-> FALSE, prev |-> NoClean]

Finished(c) == c.pc \in {"idle", "returned", "threw"}

IsSave(c) == c.kind \in {"saveMonth", "saveMonths"}

ActiveSaves == {q \in Procs : IsSave(calls[q]) /\ ~Finished(calls[q])}

\* history bookkeeping when a save starts in slot p: it overlaps every save
\* in flight, and no read in flight can rely on the last clean save any more
WithSaveStarted(p, c) ==
    [q \in Procs |->
        IF q = p THEN c
       ELSE IF q \in ActiveSaves THEN [calls[q] EXCEPT !.overlapped = TRUE]
       ELSE IF calls[q].kind = "getMonths" /\ ~Finished(calls[q])
             THEN [calls[q] EXCEPT !.prev = NoClean]
       ELSE calls[q]]

\* the invocation record of FinanceAPI.saveMonth(userId, month): the Month
\* upsert is issued
SaveMonthCall(caller, userId, month) ==
    [IdleCall EXCEPT !.kind = "saveMonth", !.pc = "upsertMonth", !.caller = caller,
                     !.userId = userId, !.month = month,
                     !.issued = {"upsertMonth"},
                     !.overlapped = (ActiveSaves # {}),
                     !.prev = lastClean]

\* the invocation record of FinanceAPI.saveMonths(userId, months); months is
\* not empty, so the Month upsert of its first month is issued. c.months
\* holds the months still to be processed, the first being the one in progress
SaveMonthsCall(caller, userId, list) ==
    [IdleCall EXCEPT !.kind = "saveMonths", !.pc = "upsertMonth", !.caller = caller,
                     !.userId = userId, !.months = list,
                     !.issued = {"upsertMonth"},
                     !.overlapped = (ActiveSaves # {}),
                     !.prev = lastClean]

\* the invocation record of FinanceAPI.getMonths(userId): the Month read is
\* issued
GetMonthsCall(caller, userId) ==
    [IdleCall EXCEPT !.kind = "getMonths", !.pc = "selectMonths", !.caller = caller,
                     !.userId = userId, !.issued = {"selectMonths"},
                     !.prev = IF ActiveSaves = {} THEN lastClean ELSE NoClean]

\* a save call starts in slot p
BeginSave(p, c) ==
    /\ calls' = WithSaveStarted(p, c)
    /\ lastClean' = NoClean
    /\ lastUpsertBy' = IF lastUpsertBy = p THEN 0 ELSE lastUpsertBy

\* a getMonths call starts in slot p
BeginLoad(p, c) ==
    /\ calls' = [calls EXCEPT ![p] = c]
    /\ lastUpsertBy' = IF lastUpsertBy = p THEN 0 ELSE lastUpsertBy
    /\ UNCHANGED lastClean

\* FinanceAPI.saveMonth(userId, month) called directly
StartSaveMonth(p, userId, month) ==
    /\ Finished(calls[p])
    /\ started < MaxSaves
    /\ started' = started + 1
    /\ BeginSave(p, SaveMonthCall("api", userId, month))
    /\ UNCHANGED <<monthsTable, expensesTable, generated, upserted, appVars>>

\* what a finished call leaves in its slot
Return(c) ==
    [c EXCEPT !.pc = "returned", !.monthUUID = 0, !.existingIds = {}]

Throw(c, err) ==
    [c EXCEPT !.pc = "threw", !.error = err, !.failed = @ \cup {c.pc},
              !.monthUUID = 0, !.existingIds = {}]

\* the history record of a saveMonth that returns from state c, the store
\* being left as (months, expenses)
CleanAfter(c, mTable, eTable) ==
    IF c.kind = "saveMonth" /\ c.caller = "api" /\ ~c.overlapped /\ c.failed = {}
    THEN [userId |-> c.userId, month |-> c.month, months |-> mTable,
          expenses |-> eTable,
          prevUserId |-> c.prev.userId, prevMonth |-> c.prev.month,
          prevMonths |-> c.prev.months, prevExpenses |-> c.prev.expenses]
    ELSE NoClean

\* saveMonth after its expense read (financeService.ts:219-234): the next
\* remote call, or the return when there is nothing to delete or upsert
AfterSelectExisting(c, existingIds) ==
    IF ToDelete(existingIds, CurrentIds(c.month)) # {}
    THEN [c EXCEPT !.pc = "deleteRemoved", !.existingIds = existingIds,
                   !.issued = @ \cup {"deleteRemoved"}]
    ELSE IF Len(c.month.expenses) > 0
    THEN [c EXCEPT !.pc = "upsertExpenses", !.existingIds = existingIds,
                   !.issued = @ \cup {"upsertExpenses"}]
    ELSE Return(c)

\* saveMonth after its delete (financeService.ts:230-234); the delete error
\* is logged only
AfterDeleteRemoved(c) ==
    IF Len(c.month.expenses) > 0
    THEN [c EXCEPT !.pc = "upsertExpenses", !.issued = @ \cup {"upsertExpenses"}]
    ELSE Return(c)

\* mutant of OnMonthError: the error is logged and the call goes on, as in
\* the loop of saveMonths
OnMonthErrorContinue(c) ==
    [c EXCEPT !.pc = "selectExisting", !.error = "monthError",
              !.issued = @ \cup {"selectExisting"}]

\* saveMonth when the Month upsert answered with monthError
\* (financeService.ts:198-201)
OnMonthError(c) == Throw(c, "monthError")

\* saveMonth when the expense read answered with fetchError
\* (financeService.ts:214-217)
OnFetchError(c) == Throw(c, "fetchError")

\* mutant of OnDeleteError: the delete error is raised like the others
OnDeleteErrorThrow(c) == Throw(c, "deleteError")

\* saveMonth when the delete answered with deleteError (financeService.ts:230)
OnDeleteError(c) == AfterDeleteRemoved([c EXCEPT !.failed = @ \cup {"deleteRemoved"}])

\* saveMonth when the expense upsert answered with upsertError
\* (financeService.ts:250-253)
OnUpsertError(c) == Throw(c, "upsertError")

\* the slot p takes the state c; a saveMonth that returns is recorded
SettleCall(p, c) ==
    /\ calls' = [calls EXCEPT ![p] = c]
    /\ lastClean' = IF c.pc = "returned" /\ c.kind = "saveMonth"
                    THEN CleanAfter(c, monthsTable', expensesTable')
                    ELSE lastClean
    /\ lastUpsertBy' = IF calls[p].pc = "upsertExpenses" /\ c.pc = "returned"
                       THEN p
                       ELSE lastUpsertBy

-----------------------------------------------------------------------------
(* App.tsx: debounce, the save trigger effect, and what loadData and the   *)
(* debounced save do when their remote call moves on.  Time advances in    *)
(* ticks; a timer runs at the tick it is due, before any other event of    *)
(* that tick.                                                              *)

\* the wait given to debounce (App.tsx:201)
QuietPeriod == 2000

\* setTimeout(() => setSaveStatus('idle'), 2000) (App.tsx:195)
SavedResetDelay == 2000

\* setTimeout(() => setSaveStatus('idle'), 5000) (App.tsx:199)
ErrorResetDelay == 5000

\* the length of a tick: a quarter of the quiet period
TickMs == QuietPeriod \div 4

\* generateMonthId(new Date()): the month of the wall clock
Today == "2025-03"

\* the order of a.id.localeCompare(b.id) on the month ids of the model
MonthOrdinal(code) ==
    IF code = "2025-03" THEN 3 ELSE IF code = "2025-04" THEN 4 ELSE 5

\* getInitialMonth() (App.tsx:33-40)
getInitialMonth ==
    [id |-> Today, label |-> getMonthLabel(Today), salary1 |-> 0, salary2 |-> 0,
     expenses |-> <<>>, closed |-> FALSE]

\* months.find(m => m.id === id) succeeds
HasMonth(ms, id) == \E i \in DOMAIN ms : ms[i].id = id

\* months.find(m => m.id === id): the first match
FindMonth(ms, id) ==
    ms[CHOOSE i \in DOMAIN ms : ms[i].id = id /\ \A j \in 1..(i - 1) : ms[j].id # id]

\* currentMonthData (App.tsx:206-208)
currentMonthData(ms, cur) ==
    IF HasMonth(ms, cur) THEN FindMonth(ms, cur) ELSE getInitialMonth

\* clearTimeout(id)
ClearTimeout(timers, id) == {t \in timers : t.id # id}

\* the id setTimeout hands out: the lowest one no pending timer holds
FreshTimerId(timers) ==
    CHOOSE n \in 1..(Cardinality(timers) + 1) :
        /\ \A t \in timers : t.id # n
        /\ \A m \in 1..(n - 1) : \E t \in timers : t.id = m

\* setTimeout(() => func(userId, monthData), wait)
SetTimeout(timers, wait, userId, monthData) ==
    timers \cup {[id |-> FreshTimerId(timers), remaining |-> wait,
                  userId |-> userId, monthData |-> monthData]}

\* mutant of debounce: the pending timer is not cleared
debounceNoClear(timers, tmo, userId, monthData) ==
    [timeout |-> FreshTimerId(timers),
     timers |-> SetTimeout(timers, QuietPeriod, userId, monthData)]

\* one call of the function debounce returns (App.tsx:26-29), the wait being
\* the one of debouncedSave: the closure's timeout and the pending timers
debounce(timers, tmo, userId, monthData) ==
    LET cleared == ClearTimeout(timers, tmo) IN
    [timeout |-> FreshTimerId(cleared),
     timers |-> SetTimeout(cleared, QuietPeriod, userId, monthData)]

NoArgs == [userId |-> "", monthData |-> NoMonth]

\* history of the calls of the debounced save: n calls in the current burst
\* (counted up to BurstCap), the last one with args, since ms ago; the
\* action ran execs times since the burst began, the last time execSince ms
\* after the last call, with execArgs
NoBurst ==
    [n |-> 0, args |-> NoArgs, since |-> 0, execs |-> 0, execSince |-> 0,
     execArgs |-> NoArgs]

\* the longest burst the history tells apart
BurstCap == MaxActions

\* a call that comes less than the quiet period after the previous one
\* belongs to its burst; any other call begins a burst
BurstAfterCall(b, userId, monthData) ==
    IF b.n > 0 /\ b.since < QuietPeriod
    THEN [b EXCEPT !.n = IF @ < BurstCap THEN @ + 1 ELSE @, !.since = 0,
                   !.args = [userId |-> userId, monthData |-> monthData]]
    ELSE [NoBurst EXCEPT !.n = 1,
                         !.args = [userId |-> userId, monthData |-> monthData]]

BurstAfterExec(b, userId, monthData) ==
    [b EXCEPT !.execs = @ + 1, !.execSince = b.since,
              !.execArgs = [userId |-> userId, monthData |-> monthData]]

BurstAfterTick(b) ==
    IF b.n = 0 THEN b
    ELSE [b EXCEPT !.since = IF @ > QuietPeriod THEN @ ELSE @ + TickMs]

\* the save trigger effect (App.tsx:211-215), run after a render in which
\* one of its dependencies changed (changed), with the state of that render
SaveTrigger(changed, u, ms, cur) ==
    LET monthData == currentMonthData(ms, cur)
        d == debounce(debounceTimers, timeout, u, monthData) IN
    IF changed /\ u # "" /\ monthData.id # "" /\ Len(ms) > 0
    THEN /\ timeout' = d.timeout
         /\ debounceTimers' = d.timers
         /\ burst' = BurstAfterCall(burst, u, monthData)
    ELSE UNCHANGED <<timeout, debounceTimers, burst>>

\* what the slot of a call of the application keeps once the call finished
\* and its caller took the outcome: the history fields
Taken(c) ==
    IF Finished(c)
    THEN [c EXCEPT !.userId = "", !.month = NoMonth, !.months = <<>>, !.result = <<>>,
                   !.prev = NoClean]
    ELSE c

\* mutant of SelectedAfterLoad: the first fetched month is selected
SelectedAfterLoadFirst(fetched) == fetched[1].id

\* the id loadData selects (App.tsx:158-166): the month of today if it was
\* fetched, the last of the sorted ids otherwise
SelectedAfterLoad(fetched) ==
    IF HasMonth(fetched, Today) THEN Today
    ELSE fetched[CHOOSE i \in DOMAIN fetched :
                     \A j \in DOMAIN fetched :
                         MonthOrdinal(fetched[j].id) <= MonthOrdinal(fetched[i].id)].id

\* loadData (App.tsx:150-182) at the remote step that takes its call to c
LoadDataStep(p, c) ==
    /\ failures' = IF c.failed # calls[p].failed THEN failures + 1 ELSE failures
    /\ UNCHANGED <<user, saveStatus, resetTimers, nextUuid, actions, slowTicks,
                   deleted, pureVars>>
    /\ IF c.kind = "getMonths" /\ c.pc = "returned" /\ Len(c.result) > 0
       THEN /\ SettleCall(p, Taken(c))
            /\ months' = c.result
            /\ owner' = c.userId
            /\ currentMonthId' = SelectedAfterLoad(c.result)
            /\ dataLoading' = FALSE
            /\ unsaved' = {}
            /\ SaveTrigger(TRUE, user, months', currentMonthId')
       ELSE IF c.kind = "getMonths" /\ c.pc = "returned"
       THEN /\ BeginSave(p, SaveMonthsCall("loadData", c.userId, <<getInitialMonth>>))
            /\ months' = <<getInitialMonth>>
            /\ owner' = c.userId
            /\ currentMonthId' = getInitialMonth.id
            /\ UNCHANGED dataLoading
            /\ unsaved' = {}
            /\ SaveTrigger(TRUE, user, months', currentMonthId')
       ELSE /\ SettleCall(p, Taken(c))
            /\ dataLoading' = IF Finished(c) THEN FALSE ELSE dataLoading
            /\ UNCHANGED <<months, currentMonthId, unsaved, timeout, debounceTimers,
                           burst, owner>>

\* mutant of DebouncedSaveStep: without the catch, a saveMonth that raised
\* leaves the status as it is and sets no timer
DebouncedSaveStepNoCatch(p, c) ==
    LET status == IF c.pc = "returned" THEN "saved" ELSE "" IN
    /\ SettleCall(p, Taken([c EXCEPT !.status = status]))
    /\ failures' = IF c.failed # calls[p].failed THEN failures + 1 ELSE failures
    /\ saveStatus' = IF status = "" THEN saveStatus ELSE status
    /\ resetTimers' = IF status = "saved" THEN resetTimers \cup {SavedResetDelay}
                      ELSE resetTimers
    /\ UNCHANGED <<user, months, currentMonthId, dataLoading, timeout, debounceTimers,
                   nextUuid, actions, burst, unsaved, slowTicks, owner, deleted,
                   pureVars>>

\* the action of debouncedSave (App.tsx:190-200) at the remote step that
\* takes its saveMonth to c
DebouncedSaveStep(p, c) ==
    LET status == IF c.pc = "returned" THEN "saved"
                  ELSE IF c.pc = "threw" THEN "error"
                  ELSE "" IN
    /\ SettleCall(p, Taken([c EXCEPT !.status = status]))
    /\ failures' = IF c.failed # calls[p].failed THEN failures + 1 ELSE failures
    /\ saveStatus' = IF status = "" THEN saveStatus ELSE status
    /\ resetTimers' = IF status = "saved" THEN resetTimers \cup {SavedResetDelay}
                      ELSE IF status = "error" THEN resetTimers \cup {ErrorResetDelay}
                      ELSE resetTimers
    /\ UNCHANGED <<user, months, currentMonthId, dataLoading, timeout, debounceTimers,
                   nextUuid, actions, burst, unsaved, slowTicks, owner, deleted,
                   pureVars>>

\* a remote step takes the call of slot p to c, and its caller goes on
Settle(p, c) ==
    IF c.caller = "loadData" THEN LoadDataStep(p, c)
    ELSE IF c.caller = "debouncedSave" THEN DebouncedSaveStep(p, c)
    ELSE SettleCall(p, c) /\ UNCHANGED appVars

-----------------------------------------------------------------------------
(* FinanceAPI: the remote steps                                            *)

\* 1. Upsert Month Record (financeService.ts:185-205)
SaveMonthUpsertMonth(p, ok) ==
    LET c == calls[p]
        payload == MonthPayload(c.userId, c.month) IN
    /\ c.kind = "saveMonth" /\ c.pc = "upsertMonth"
    /\ UNCHANGED <<expensesTable, started, generated>>
    /\ upserted' = IF ok THEN WithUpserted(upserted, payload) ELSE upserted
    /\ IF ok
       THEN /\ monthsTable' = UpsertMonth(monthsTable, payload)
            /\ Settle(p, [c EXCEPT !.pc = "selectExisting",
                                    !.monthUUID = SavedMonth(monthsTable', payload).id,
                                    !.issued = @ \cup {"selectExisting"}])
       ELSE /\ UNCHANGED monthsTable
            /\ Settle(p, OnMonthError(c))

\* 2. fetch the existing expense ids of the month (financeService.ts:209-223)
SaveMonthSelectExisting(p, ok) ==
    LET c == calls[p] IN
    /\ c.kind = "saveMonth" /\ c.pc = "selectExisting"
    /\ UNCHANGED <<monthsTable, expensesTable, started, generated, upserted>>
    /\ IF ok
       THEN Settle(p, AfterSelectExisting(c, ExistingIds(expensesTable, c.monthUUID)))
       ELSE Settle(p, OnFetchError(c))

\* delete the expenses that were removed (financeService.ts:224-231)
SaveMonthDeleteRemoved(p, ok) ==
    LET c == calls[p] IN
    /\ c.kind = "saveMonth" /\ c.pc = "deleteRemoved"
    /\ UNCHANGED <<monthsTable, started, generated, upserted>>
    /\ IF ok
       THEN /\ expensesTable' = DeleteByIds(expensesTable,
                                    ToDelete(c.existingIds, CurrentIds(c.month)))
            /\ Settle(p, AfterDeleteRemoved(c))
       ELSE /\ UNCHANGED expensesTable
            /\ Settle(p, OnDeleteError(c))

\* upsert the current expenses (financeService.ts:234-254)
SaveMonthUpsertExpenses(p, ok) ==
    LET c == calls[p] IN
    /\ c.kind = "saveMonth" /\ c.pc = "upsertExpenses"
    /\ UNCHANGED <<monthsTable, started, generated, upserted>>
    /\ IF ok
       THEN /\ expensesTable' = UpsertExpenses(expensesTable,
                                    ExpensesToUpsert(c.userId, c.monthUUID, c.month))
            /\ Settle(p, Return(c))
       ELSE /\ UNCHANGED expensesTable
            /\ Settle(p, OnUpsertError(c))

\* FinanceAPI.saveMonths(userId, months) called directly
StartSaveMonths(p, userId, list) ==
    /\ Finished(calls[p])
    /\ Len(list) > 0
    /\ started < MaxSaves
    /\ started' = started + 1
    /\ BeginSave(p, SaveMonthsCall("api", userId, list))
    /\ UNCHANGED <<monthsTable, expensesTable, generated, upserted, appVars>>

\* saveMonths moves on to the next month of the loop, or returns
\* (financeService.ts:116, 176-177)
NextMonth(c) ==
    IF Len(c.months) > 1
    THEN [c EXCEPT !.pc = "upsertMonth", !.months = Tail(@), !.monthUUID = 0]
    ELSE [Return(c) EXCEPT !.months = <<>>]

\* mutant of OnMonthErrorInLoop: the error is raised, as in saveMonth
OnMonthErrorInLoopThrow(c) == Throw(c, "monthError")

\* saveMonths when the Month upsert of a month failed: logged, continue
\* (financeService.ts:131-136)
OnMonthErrorInLoop(c) == NextMonth([c EXCEPT !.failed = @ \cup {"upsertMonth"}])

\* saveMonths after the delete of a month's expenses, whether it failed or
\* not (financeService.ts:150-155)
AfterDeleteAll(c) ==
    IF Len(Head(c.months).expenses) > 0
    THEN [c EXCEPT !.pc = "insertExpenses", !.issued = @ \cup {"insertExpenses"}]
    ELSE NextMonth(c)

\* saveMonths when the delete failed: logged, "try to insert anyway"
\* (financeService.ts:150-153)
OnDeleteErrorInLoop(c) == AfterDeleteAll([c EXCEPT !.failed = @ \cup {"deleteAll"}])

\* saveMonths when the insert failed: logged (financeService.ts:174)
OnInsertError(c) == NextMonth([c EXCEPT !.failed = @ \cup {"insertExpenses"}])

\* 1. Upsert Month Record, in the loop of saveMonths (financeService.ts:118-138)
SaveMonthsUpsertMonth(p, ok) ==
    LET c == calls[p]
        payload == MonthPayload(c.userId, Head(c.months)) IN
    /\ c.kind = "saveMonths" /\ c.pc = "upsertMonth"
    /\ UNCHANGED <<expensesTable, started, generated>>
    /\ upserted' = IF ok THEN WithUpserted(upserted, payload) ELSE upserted
    /\ IF ok
       THEN /\ monthsTable' = UpsertMonth(monthsTable, payload)
            /\ Settle(p, [c EXCEPT !.pc = "deleteAll",
                                   !.monthUUID = SavedMonth(monthsTable', payload).id,
                                   !.issued = @ \cup {"deleteAll"}])
       ELSE /\ UNCHANGED monthsTable
            /\ Settle(p, OnMonthErrorInLoop(c))

\* 2. Sync Expenses: delete all for this month (financeService.ts:145-153)
SaveMonthsDeleteAll(p, ok) ==
    LET c == calls[p] IN
    /\ c.kind = "saveMonths" /\ c.pc = "deleteAll"
    /\ UNCHANGED <<monthsTable, started, generated, upserted>>
    /\ IF ok
       THEN /\ expensesTable' = DeleteByMonth(expensesTable, c.monthUUID)
            /\ Settle(p, AfterDeleteAll(c))
       ELSE /\ UNCHANGED expensesTable
            /\ Settle(p, OnDeleteErrorInLoop(c))

\* ... and re-insert (financeService.ts:155-175)
SaveMonthsInsertExpenses(p, ok) ==
    LET c == calls[p] IN
    /\ c.kind = "saveMonths" /\ c.pc = "insertExpenses"
    /\ UNCHANGED <<monthsTable, started, upserted>>
    /\ IF ok
       THEN /\ expensesTable' = InsertExpenses(expensesTable, c.userId, c.monthUUID,
                                               Head(c.months), generated)
            /\ generated' = generated + Len(Head(c.months).expenses)
            /\ Settle(p, NextMonth(c))
       ELSE /\ UNCHANGED <<expensesTable, generated>>
            /\ Settle(p, OnInsertError(c))

\* FinanceAPI.getMonths(userId) called directly
StartGetMonths(p, userId) ==
    /\ Finished(calls[p])
    /\ BeginLoad(p, GetMonthsCall("api", userId))
    /\ UNCHANGED <<monthsTable, expensesTable, started, generated, upserted, appVars>>

\* getMonths after its Month read (financeService.ts:69-76)
AfterSelectMonths(c, monthsData) ==
    IF Len(monthsData) = 0
    THEN [Return(c) EXCEPT !.result = <<>>]
    ELSE [c EXCEPT !.pc = "selectExpenses", !.monthsData = monthsData,
                   !.issued = @ \cup {"selectExpenses"}]

\* getMonths after its Expense read (financeService.ts:84-106)
AfterSelectExpenses(c, expensesData) ==
    [Return(c) EXCEPT !.result = JoinMonths(c.monthsData, expensesData),
                      !.monthsData = <<>>]

\* getMonths when the Month read answered with monthsError
\* (financeService.ts:65-68)
OnMonthsError(c) == Throw(c, "monthsError")

\* mutant of OnExpensesError: the error is logged and the months are
\* returned with empty expense lists
OnExpensesErrorPartial(c) ==
    [Return(c) EXCEPT !.result = JoinMonths(c.monthsData, <<>>),
                      !.failed = @ \cup {c.pc}, !.monthsData = <<>>]

\* getMonths when the Expense read answered with expensesError
\* (financeService.ts:78-81)
OnExpensesError(c) == [Throw(c, "expensesError") EXCEPT !.monthsData = <<>>]

\* 1. Fetch Months (financeService.ts:60-69)
GetMonthsSelectMonths(p, ok) ==
    LET c == calls[p] IN
    /\ c.kind = "getMonths" /\ c.pc = "selectMonths"
    /\ UNCHANGED <<monthsTable, expensesTable, started, generated, upserted>>
    /\ IF ok
       THEN \E monthsData \in Orderings(SelectMonths(monthsTable, c.userId)) :
                Settle(p, AfterSelectMonths(c, monthsData))
       ELSE Settle(p, OnMonthsError(c))

\* 2. Fetch Expenses for these months and join (financeService.ts:72-106)
GetMonthsSelectExpenses(p, ok) ==
    LET c == calls[p]
        monthIds == {m.id : m \in Range(c.monthsData)} IN
    /\ c.kind = "getMonths" /\ c.pc = "selectExpenses"
    /\ UNCHANGED <<monthsTable, expensesTable, started, generated, upserted>>
    /\ IF ok
       THEN \E expensesData \in Orderings(SelectExpensesIn(expensesTable, monthIds)) :
                Settle(p, AfterSelectExpenses(c, expensesData))
       ELSE Settle(p, OnExpensesError(c))

-----------------------------------------------------------------------------
(* Spec: the reconciliation engine called directly, one call at a time,     *)
(* with any inputs and any remote call failing                              *)

Init ==
    /\ monthsTable = {}
    /\ expensesTable = {}
    /\ calls = [p \in Procs |-> IdleCall]
    /\ started = 0
    /\ generated = 0
    /\ upserted = {}
    /\ lastClean = NoClean
    /\ lastUpsertBy = 0
    /\ user = ""
    /\ months = <<>>
    /\ currentMonthId = ""
    /\ dataLoading = FALSE
    /\ saveStatus = "idle"
    /\ timeout = 0
    /\ debounceTimers = {}
    /\ resetTimers = {}
    /\ nextUuid = 1
    /\ actions = 0
    /\ burst = NoBurst
    /\ unsaved = {}
    /\ slowTicks = 0
    /\ failures = 0
    /\ owner = ""
    /\ deleted = {}
    /\ arg = [fn |-> "none"]
    /\ ret = [fn |-> "none"]

Quiet == \A q \in Procs : Finished(calls[q])

CallSaveMonth ==
    /\ Quiet
    /\ \E k \in Keys : \E month \in Snapshots(k[1], k[2]) :
            StartSaveMonth(1, k[1], month)

\* the month lists given to saveMonths: one open month of the user, or the
\* two months of a user that has two
MonthLists(userId) ==
    LET open == {m \in UNION {Snapshots(k[1], k[2]) : k \in {x \in Keys : x[1] = userId}} :
                    ~m.closed} IN
    {<<m>> : m \in open}
    \cup {<<m, n>> : m \in {x \in open : x.id = "2025-03"},
                     n \in {x \in open : x.id = "2025-04" /\ Len(x.expenses) = 0}}

CallSaveMonths ==
    /\ Quiet
    /\ \E userId \in Users : \E list \in MonthLists(userId) :
            StartSaveMonths(1, userId, list)

CallGetMonths ==
    /\ Quiet
    /\ \E userId \in Users : StartGetMonths(1, userId)

UpsertMonthStep == \E p \in Procs, ok \in BOOLEAN : SaveMonthUpsertMonth(p, ok)

SelectExistingStep == \E p \in Procs, ok \in BOOLEAN : SaveMonthSelectExisting(p, ok)

DeleteRemovedStep == \E p \in Procs, ok \in BOOLEAN : SaveMonthDeleteRemoved(p, ok)

UpsertExpensesStep == \E p \in Procs, ok \in BOOLEAN : SaveMonthUpsertExpenses(p, ok)

UpsertMonthInLoopStep == \E p \in Procs, ok \in BOOLEAN : SaveMonthsUpsertMonth(p, ok)

DeleteAllStep == \E p \in Procs, ok \in BOOLEAN : SaveMonthsDeleteAll(p, ok)

InsertExpensesStep == \E p \in Procs, ok \in BOOLEAN : SaveMonthsInsertExpenses(p, ok)

SelectMonthsStep == \E p \in Procs, ok \in BOOLEAN : GetMonthsSelectMonths(p, ok)

SelectExpensesStep == \E p \in Procs, ok \in BOOLEAN : GetMonthsSelectExpenses(p, ok)

Next ==
    \/ CallSaveMonth
    \/ CallSaveMonths
    \/ CallGetMonths
    \/ UpsertMonthStep
    \/ SelectExistingStep
    \/ DeleteRemovedStep
    \/ UpsertExpensesStep
    \/ UpsertMonthInLoopStep
    \/ DeleteAllStep
    \/ InsertExpensesStep
    \/ SelectMonthsStep
    \/ SelectExpensesStep

Spec == Init /\ [][Next]_vars

-----------------------------------------------------------------------------
(* SpecRace: saveMonth and saveMonths calls of one user for one month that  *)
(* may overlap, their remote calls interleaved in any order and all         *)
(* succeeding                                                               *)

LowestFreeSlot(p) == Finished(calls[p]) /\ \A q \in Procs : q < p => ~Finished(calls[q])

RaceSaveMonth ==
    \E p \in Procs : \E month \in Snapshots("u1", "2025-03") :
        LowestFreeSlot(p) /\ StartSaveMonth(p, "u1", month)

RaceUpsertMonth == \E p \in Procs : SaveMonthUpsertMonth(p, TRUE)

RaceSelectExisting == \E p \in Procs : SaveMonthSelectExisting(p, TRUE)

RaceDeleteRemoved == \E p \in Procs : SaveMonthDeleteRemoved(p, TRUE)

RaceUpsertExpenses == \E p \in Procs : SaveMonthUpsertExpenses(p, TRUE)

\* saveMonths with the one month, as loadData calls it
RaceSaveMonths ==
    \E p \in Procs : \E month \in Snapshots("u1", "2025-03") :
        LowestFreeSlot(p) /\ StartSaveMonths(p, "u1", <<month>>)

RaceUpsertMonthInLoop == \E p \in Procs : SaveMonthsUpsertMonth(p, TRUE)

RaceDeleteAll == \E p \in Procs : SaveMonthsDeleteAll(p, TRUE)

RaceInsertExpenses == \E p \in Procs : SaveMonthsInsertExpenses(p, TRUE)

NextRace ==
    \/ RaceSaveMonth
    \/ RaceUpsertMonth
    \/ RaceSelectExisting
    \/ RaceDeleteRemoved
    \/ RaceUpsertExpenses
    \/ RaceSaveMonths
    \/ RaceUpsertMonthInLoop
    \/ RaceDeleteAll
    \/ RaceInsertExpenses

SpecRace == Init /\ [][NextRace]_vars

-----------------------------------------------------------------------------
(* SpecApp: one session of the application (App.tsx) against the remote    *)
(* store: session events, the handlers of the screens, the timers, and     *)
(* the remote steps of the calls it makes, any of which may fail           *)

AppUsers == {"u1"}

\* strings of digits and signs (month ids, the values of the number inputs)
\* are the sequences of their code units
Hyphen == 45

Zero == 48

\* String(n) for an integer n >= 0, as the sequence of its code units
RECURSIVE DecimalString(_)
DecimalString(n) ==
    IF n < 10 THEN <<Zero + n>>
    ELSE Append(DecimalString(n \div 10), Zero + (n % 10))

IsDigit(ch) == ch \in Zero..(Zero + 9)

\* the number written by the digits of str
RECURSIVE NumberOf(_)
NumberOf(str) ==
    IF str = <<>> THEN 0
    ELSE 10 * NumberOf(SubSeq(str, 1, Len(str) - 1)) + (str[Len(str)] - Zero)

\* str is the value of an <input type="number"> (App.tsx:662, 669, 746)
\* holding an integer: digits, with or without a minus sign
IsInteger(str) ==
    LET digits == IF str # <<>> /\ Head(str) = Hyphen THEN Tail(str) ELSE str IN
    digits # <<>> /\ \A i \in DOMAIN digits : IsDigit(digits[i])

\* Number(str) for the empty string and for the strings of IsInteger
Number(str) ==
    IF str = <<>> THEN 0
    ELSE IF Head(str) = Hyphen THEN 0 - NumberOf(Tail(str))
    ELSE NumberOf(str)

\* Number(str) || 0 (App.tsx:338-339): 0 for NaN and for 0
NumberOrZero(str) == IF IsInteger(str) THEN Number(str) ELSE 0

\* the salary form as saved on the salaries screen
SalaryInputs == {[salary1 |-> DecimalString(5000), salary2 |-> DecimalString(3000)]}

\* the expense form as submitted on the fixed expenses screen
ExpenseForms ==
    {[name |-> "Aluguel", value |-> DecimalString(2000), category |-> "Moradia",
      date |-> <<Today, 5>>]}

\* the months the creation form can name
NewMonthIds == {"2025-04"}

storeVars == <<monthsTable, expensesTable, started, generated, upserted>>

callVars == <<calls, lastClean, lastUpsertBy>>

\* no timer is due at the current tick
NoneDue == (\A t \in debounceTimers : t.remaining > 0) /\ 0 \notin resetTimers

\* the screens are rendered (App.tsx:892-905): a user, and no load going on
Interactive == user # "" /\ ~dataLoading /\ NoneDue /\ actions < MaxActions

\* onAuthStateChange (App.tsx:93-100) with the session of user u, or with no
\* session (u = ""); then the effects that depend on user: loadData
\* (App.tsx:147-185) up to its await, and the save trigger
AuthStateChange(u) ==
    /\ actions < MaxActions
    /\ NoneDue
    /\ u # "" \/ user # ""
    /\ actions' = actions + 1
    /\ user' = u
    /\ months' = IF u = "" THEN <<>> ELSE months
    /\ currentMonthId' = IF u = "" THEN "" ELSE currentMonthId
    /\ unsaved' = IF u = "" THEN {} ELSE unsaved
    /\ IF u # ""
       THEN /\ dataLoading' = TRUE
            /\ \E p \in Procs :
                   LowestFreeSlot(p) /\ BeginLoad(p, GetMonthsCall("loadData", u))
       ELSE UNCHANGED <<dataLoading, callVars>>
    /\ SaveTrigger(TRUE, u, months', currentMonthId')
    /\ UNCHANGED <<saveStatus, resetTimers, nextUuid, slowTicks, failures, owner,
                   deleted, pureVars, storeVars>>

\* updateCurrentMonth (App.tsx:326-328): the months after the update, the
\* updater being a function on the months of ms
updateCurrentMonth(ms, cur, updater) ==
    [i \in DOMAIN ms |-> IF ms[i].id = cur THEN updater[ms[i]] ELSE ms[i]]

\* a handler sets months through updateCurrentMonth: the array is a new one,
\* and so is currentMonthData, whether the current month was found or not
AfterUpdateCurrentMonth(newMonths) ==
    /\ months' = newMonths
    /\ actions' = actions + 1
    /\ unsaved' = IF HasMonth(months, currentMonthId)
                  THEN unsaved \cup {currentMonthId}
                  ELSE unsaved
    /\ SaveTrigger(TRUE, user, months', currentMonthId)
    /\ UNCHANGED <<user, currentMonthId, dataLoading, saveStatus, resetTimers,
                   slowTicks, failures, owner, deleted, pureVars, storeVars, callVars>>

\* handleSaveSalaries (App.tsx:335-342)
SaveSalaries(salaryForm) ==
    /\ Interactive
    /\ AfterUpdateCurrentMonth(
           updateCurrentMonth(months, currentMonthId,
               [m \in Range(months) |->
                   [m EXCEPT !.salary1 = NumberOrZero(salaryForm.salary1),
                             !.salary2 = NumberOrZero(salaryForm.salary2)]]))
    /\ UNCHANGED nextUuid

handleSaveSalaries == \E salaryForm \in SalaryInputs : SaveSalaries(salaryForm)

\* a handler that returns at its first line: nothing is set
ReturnEarly ==
    /\ actions' = actions + 1
    /\ UNCHANGED <<user, months, currentMonthId, dataLoading, saveStatus, timeout,
                   debounceTimers, resetTimers, nextUuid, burst, unsaved, slowTicks,
                   failures, owner, deleted, pureVars, storeVars, callVars>>

\* mutant of AddExpense: the form is not looked at
AddExpenseUnchecked(expenseForm) ==
    LET newExpense == [id |-> nextUuid, name |-> expenseForm.name,
                       value |-> Number(expenseForm.value),
                       category |-> expenseForm.category, date |-> expenseForm.date,
                       type |-> "fixed"] IN
    /\ Interactive
    /\ AfterUpdateCurrentMonth(
           updateCurrentMonth(months, currentMonthId,
               [m \in Range(months) |->
                   [m EXCEPT !.expenses = Append(@, newExpense)]]))
    /\ nextUuid' = nextUuid + 1

\* handleAddExpense('fixed') (App.tsx:344-364) with the form as typed
AddExpense(expenseForm) ==
    LET newExpense == [id |-> nextUuid, name |-> expenseForm.name,
                       value |-> Number(expenseForm.value),
                       category |-> expenseForm.category, date |-> expenseForm.date,
                       type |-> "fixed"] IN
    /\ Interactive
    /\ IF expenseForm.name = "" \/ expenseForm.value = <<>>
       THEN ReturnEarly
       ELSE /\ AfterUpdateCurrentMonth(
                   updateCurrentMonth(months, currentMonthId,
                       [m \in Range(months) |->
                           [m EXCEPT !.expenses = Append(@, newExpense)]]))
            /\ nextUuid' = nextUuid + 1

handleAddExpense == \E expenseForm \in ExpenseForms : AddExpense(expenseForm)

\* handleDeleteExpense(id), confirmed (App.tsx:385-393)
handleDeleteExpense ==
    /\ Interactive
    /\ \E e \in Range(currentMonthData(months, currentMonthId).expenses) :
           AfterUpdateCurrentMonth(
               updateCurrentMonth(months, currentMonthId,
                   [m \in Range(months) |->
                       [m EXCEPT !.expenses = SelectSeq(@, LAMBDA x : x.id # e.id)]]))
    /\ UNCHANGED nextUuid

\* handleSelectMonth(id) (App.tsx:294-297); currentMonthData changes when
\* another month is selected
handleSelectMonth ==
    /\ Interactive
    /\ \E m \in Range(months) :
           /\ currentMonthId' = m.id
           /\ SaveTrigger(m.id # currentMonthId, user, months, m.id)
    /\ actions' = actions + 1
    /\ UNCHANGED <<user, months, dataLoading, saveStatus, resetTimers, nextUuid,
                   unsaved, slowTicks, failures, owner, deleted, pureVars, storeVars,
                   callVars>>

\* the latest month before newId (App.tsx:258-259), as a set of at most one
PreviousMonths(ms, newId) ==
    {m \in Range(ms) :
        /\ MonthOrdinal(m.id) < MonthOrdinal(newId)
        /\ \A n \in Range(ms) :
               MonthOrdinal(n.id) < MonthOrdinal(newId)
                   => MonthOrdinal(n.id) <= MonthOrdinal(m.id)}

\* mutant of ImportedExpenses: the copies keep the ids of their sources
ImportedExpensesSameIds(prev, newId, firstUuid) ==
    LET fixed == SelectSeq(prev.expenses, LAMBDA e : e.type = "fixed") IN
    [i \in DOMAIN fixed |-> [fixed[i] EXCEPT !.date = <<newId, fixed[i].date[2]>>]]

\* the fixed expenses of month prev with new ids, dated in month newId
\* (App.tsx:267-276)
ImportedExpenses(prev, newId, firstUuid) ==
    LET fixed == SelectSeq(prev.expenses, LAMBDA e : e.type = "fixed") IN
    [i \in DOMAIN fixed |->
        [fixed[i] EXCEPT !.id = firstUuid + i - 1, !.date = <<newId, fixed[i].date[2]>>]]

\* mutant of handleCreateSpecificMonth: the month is created without
\* looking for an existing one
handleCreateSpecificMonthNoCheck ==
    /\ Interactive
    /\ actions' = actions + 1
    /\ \E newId \in NewMonthIds, confirmImport \in BOOLEAN :
           LET previous == PreviousMonths(months, newId)
               previousMonth == CHOOSE m \in previous : TRUE
               importedExpenses ==
                   IF previous # {} /\ confirmImport
                   THEN ImportedExpenses(previousMonth, newId, nextUuid)
                   ELSE <<>>
               newMonthData ==
                   [id |-> newId, label |-> getMonthLabel(newId),
                    salary1 |-> IF previous # {} THEN previousMonth.salary1 ELSE 0,
                    salary2 |-> IF previous # {} THEN previousMonth.salary2 ELSE 0,
                    expenses |-> importedExpenses, closed |-> FALSE] IN
           IF FALSE
           THEN /\ confirmImport
                /\ currentMonthId' = newId
                /\ SaveTrigger(newId # currentMonthId, user, months, newId)
                /\ UNCHANGED <<months, nextUuid, unsaved, deleted>>
           ELSE /\ previous = {} => confirmImport
                /\ months' = Append(months, newMonthData)
                /\ currentMonthId' = newId
                /\ nextUuid' = nextUuid + Len(importedExpenses)
                /\ unsaved' = unsaved \cup {newId}
                /\ deleted' = deleted \ {newId}
                /\ SaveTrigger(TRUE, user, months', newId)
    /\ UNCHANGED <<user, dataLoading, saveStatus, resetTimers, slowTicks, failures,
                   owner, pureVars, storeVars, callVars>>

\* handleCreateSpecificMonth (App.tsx:243-292), confirmImport being the
\* answer to window.confirm
handleCreateSpecificMonth ==
    /\ Interactive
    /\ actions' = actions + 1
    /\ \E newId \in NewMonthIds, confirmImport \in BOOLEAN :
           LET previous == PreviousMonths(months, newId)
               previousMonth == CHOOSE m \in previous : TRUE
               importedExpenses ==
                   IF previous # {} /\ confirmImport
                   THEN ImportedExpenses(previousMonth, newId, nextUuid)
                   ELSE <<>>
               newMonthData ==
                   [id |-> newId, label |-> getMonthLabel(newId),
                    salary1 |-> IF previous # {} THEN previousMonth.salary1 ELSE 0,
                    salary2 |-> IF previous # {} THEN previousMonth.salary2 ELSE 0,
                    expenses |-> importedExpenses, closed |-> FALSE] IN
           IF HasMonth(months, newId)
           THEN /\ confirmImport
                /\ currentMonthId' = newId
                /\ SaveTrigger(newId # currentMonthId, user, months, newId)
                /\ UNCHANGED <<months, nextUuid, unsaved, deleted>>
           ELSE /\ previous = {} => confirmImport
                /\ months' = Append(months, newMonthData)
                /\ currentMonthId' = newId
                /\ nextUuid' = nextUuid + Len(importedExpenses)
                /\ unsaved' = unsaved \cup {newId}
                /\ deleted' = deleted \ {newId}
                /\ SaveTrigger(TRUE, user, months', newId)
    /\ UNCHANGED <<user, dataLoading, saveStatus, resetTimers, slowTicks, failures,
                   owner, pureVars, storeVars, callVars>>

\* a tick of the clock, when no timer is left to run at the current one
Tick ==
    /\ NoneDue
    /\ \/ debounceTimers # {}
       \/ resetTimers # {}
       \/ burst.n > 0 /\ burst.since <= QuietPeriod
    /\ debounceTimers' = {[t EXCEPT !.remaining = @ - TickMs] : t \in debounceTimers}
    /\ resetTimers' = {r - TickMs : r \in resetTimers}
    /\ burst' = BurstAfterTick(burst)
    /\ IF \A q \in Procs : Finished(calls[q])
       THEN UNCHANGED slowTicks
       ELSE slowTicks < MaxSlowTicks /\ slowTicks' = slowTicks + 1
    /\ UNCHANGED <<user, months, currentMonthId, dataLoading, saveStatus, timeout,
                   nextUuid, actions, unsaved, failures, owner, deleted, pureVars,
                   storeVars, callVars>>

\* a timer of the debounced save is due: the action of debouncedSave runs up
\* to its await (App.tsx:190-193)
DebounceFire ==
    \E t \in debounceTimers, p \in Procs :
        /\ t.remaining = 0
        /\ LowestFreeSlot(p)
        /\ debounceTimers' = debounceTimers \ {t}
        /\ saveStatus' = "saving"
        /\ BeginSave(p, SaveMonthCall("debouncedSave", t.userId, t.monthData))
        /\ burst' = BurstAfterExec(burst, t.userId, t.monthData)
        /\ unsaved' = IF HasMonth(months, t.monthData.id)
                         /\ FindMonth(months, t.monthData.id) = t.monthData
                      THEN unsaved \ {t.monthData.id}
                      ELSE unsaved
        /\ UNCHANGED <<user, months, currentMonthId, dataLoading, timeout, resetTimers,
                       nextUuid, actions, slowTicks, failures, owner, deleted, pureVars,
                       storeVars>>

\* a timer set after a save is due: setSaveStatus('idle') (App.tsx:195, 199)
ResetFire ==
    /\ 0 \in resetTimers
    /\ resetTimers' = resetTimers \ {0}
    /\ saveStatus' = "idle"
    /\ UNCHANGED <<user, months, currentMonthId, dataLoading, timeout, debounceTimers,
                   nextUuid, actions, burst, unsaved, slowTicks, failures, owner,
                   deleted, pureVars, storeVars, callVars>>

SessionEvent == \E u \in AppUsers \cup {""} : AuthStateChange(u)

\* the remote steps of the calls of the application: the store answers, with
\* an error at most MaxFailures times
Answers == {ok \in BOOLEAN : ok \/ failures < MaxFailures}

AppUpsertMonth == \E p \in Procs, ok \in Answers : SaveMonthUpsertMonth(p, ok)

AppSelectExisting == \E p \in Procs, ok \in Answers : SaveMonthSelectExisting(p, ok)

AppDeleteRemoved == \E p \in Procs, ok \in Answers : SaveMonthDeleteRemoved(p, ok)

AppUpsertExpenses == \E p \in Procs, ok \in Answers : SaveMonthUpsertExpenses(p, ok)

AppUpsertMonthInLoop == \E p \in Procs, ok \in Answers : SaveMonthsUpsertMonth(p, ok)

AppDeleteAll == \E p \in Procs, ok \in Answers : SaveMonthsDeleteAll(p, ok)

AppSelectMonths == \E p \in Procs, ok \in Answers : GetMonthsSelectMonths(p, ok)

AppSelectExpenses == \E p \in Procs, ok \in Answers : GetMonthsSelectExpenses(p, ok)

\* saveMonths is called by loadData only, with the initial month, which has
\* no expenses: its insert is never issued
NextApp ==
    \/ SessionEvent
    \/ handleSaveSalaries
    \/ handleAddExpense
    \/ handleDeleteExpense
    \/ handleSelectMonth
    \/ handleCreateSpecificMonth
    \/ Tick
    \/ DebounceFire
    \/ ResetFire
    \/ AppUpsertMonth
    \/ AppSelectExisting
    \/ AppDeleteRemoved
    \/ AppUpsertExpenses
    \/ AppUpsertMonthInLoop
    \/ AppDeleteAll
    \/ AppSelectMonths
    \/ AppSelectExpenses

SpecApp == Init /\ [][NextApp]_vars

-----------------------------------------------------------------------------
(* SpecSession: the session of App.tsx changes hands. A user logs in from   *)
(* the login screen and logs out; the loads and saves of an earlier session *)
(* complete whenever the store answers, every remote call succeeding        *)

\* onAuthStateChange with a session when there was none, or with none
LogInOrOut ==
    \E u \in Users \cup {""} : (u = "" \/ user = "") /\ AuthStateChange(u)

SessionSelectMonths == \E p \in Procs : GetMonthsSelectMonths(p, TRUE)

SessionSelectExpenses == \E p \in Procs : GetMonthsSelectExpenses(p, TRUE)

NextSession ==
    \/ LogInOrOut
    \/ handleSaveSalaries
    \/ Tick
    \/ DebounceFire
    \/ ResetFire
    \/ SessionSelectMonths
    \/ SessionSelectExpenses
    \/ RaceUpsertMonthInLoop
    \/ RaceDeleteAll
    \/ RaceUpsertMonth
    \/ RaceSelectExisting

SpecSession == Init /\ [][NextSession]_vars

-----------------------------------------------------------------------------
(* The totals of a month and the accumulated savings                        *)
(* (services/financeService.ts)                                             *)

\* the undefined calculateTotals accepts for monthData
Undefined == [undefined |-> TRUE]

\* .reduce((acc, curr) => acc + curr.value, 0) on a list of expenses, acc
\* being the value accumulated so far
RECURSIVE SumValues(_, _)
SumValues(expenses, acc) ==
    IF expenses = <<>> THEN acc
    ELSE SumValues(Tail(expenses), acc + Head(expenses).value)

\* mutant of calculateTotals: the variable expenses are left out of the
\* total
calculateTotalsFixedOnly(monthData) ==
    IF monthData = Undefined
    THEN [income |-> 0, fixed |-> 0, variable |-> 0, totalExpenses |-> 0, balance |-> 0]
    ELSE LET income == monthData.salary1 + monthData.salary2
             fixed == SumValues(SelectSeq(monthData.expenses,
                                          LAMBDA e : e.type = "fixed"), 0)
             variable == SumValues(SelectSeq(monthData.expenses,
                                             LAMBDA e : e.type = "variable"), 0)
             totalExpenses == fixed
             balance == income - totalExpenses
         IN  [income |-> income, fixed |-> fixed, variable |-> variable,
              totalExpenses |-> totalExpenses, balance |-> balance]

\* mutant of calculateTotals: without the test of line 26, reading salary1 of
\* undefined raises a TypeError
calculateTotalsUnguarded(monthData) ==
    IF monthData = Undefined
    THEN [threw |-> "TypeError"]
    ELSE LET income == monthData.salary1 + monthData.salary2
             fixed == SumValues(SelectSeq(monthData.expenses,
                                          LAMBDA e : e.type = "fixed"), 0)
             variable == SumValues(SelectSeq(monthData.expenses,
                                             LAMBDA e : e.type = "variable"), 0)
             totalExpenses == fixed + variable
             balance == income - totalExpenses
         IN  [income |-> income, fixed |-> fixed, variable |-> variable,
              totalExpenses |-> totalExpenses, balance |-> balance]

\* calculateTotals (financeService.ts:25-40)
calculateTotals(monthData) ==
    IF monthData = Undefined
    THEN [income |-> 0, fixed |-> 0, variable |-> 0, totalExpenses |-> 0, balance |-> 0]
    ELSE LET income == monthData.salary1 + monthData.salary2
             fixed == SumValues(SelectSeq(monthData.expenses,
                                          LAMBDA e : e.type = "fixed"), 0)
             variable == SumValues(SelectSeq(monthData.expenses,
                                             LAMBDA e : e.type = "variable"), 0)
             totalExpenses == fixed + variable
             balance == income - totalExpenses
         IN  [income |-> income, fixed |-> fixed, variable |-> variable,
              totalExpenses |-> totalExpenses, balance |-> balance]

\* .reduce((acc, m) => acc + (balance > 0 ? balance : 0), 0) on a list of
\* months (financeService.ts:45-48)
RECURSIVE SumSavings(_, _)
SumSavings(ms, acc) ==
    IF ms = <<>> THEN acc
    ELSE LET balance == calculateTotals(Head(ms)).balance IN
         SumSavings(Tail(ms), acc + (IF balance > 0 THEN balance ELSE 0))

\* mutant of calculateAccumulatedSavings: the open months are counted too
calculateAccumulatedSavingsAllMonths(ms) == SumSavings(ms, 0)

\* calculateAccumulatedSavings (financeService.ts:42-49)
calculateAccumulatedSavings(ms) ==
    SumSavings(SelectSeq(ms, LAMBDA m : m.closed), 0)

-----------------------------------------------------------------------------
(* SpecPure: calculateTotals and calculateAccumulatedSavings called with    *)
(* every argument of a bounded set                                          *)

\* the longest expense list of an argument of calculateTotals
MaxExpenses == 2

\* the longest month list given to calculateAccumulatedSavings
MaxMonths == 3

SalaryPairs == {<<s1, s2>> : s1 \in {0, 3000, 5000}, s2 \in {0, 3000}}

\* (type, value) of the expenses of the arguments
ExpenseKinds ==
    {<<"fixed", 2000>>, <<"fixed", 500>>, <<"variable", 500>>, <<"variable", 9000>>}

ExpenseOfKind(i, kind) ==
    [id |-> i, name |-> "Despesa", value |-> kind[2], category |-> "Outros",
     date |-> <<Today, 1>>, type |-> kind[1]]

ExpenseListsUpTo(n) ==
    UNION {{[i \in 1..k |-> ExpenseOfKind(i, kinds[i])] : kinds \in [1..k -> ExpenseKinds]} :
           k \in 0..n}

\* the arguments of calculateTotals: undefined and the months
TotalsArgs ==
    {Undefined} \cup
    {MkMonth(Today, <<sal[1], sal[2], FALSE>>, exps) :
        sal \in SalaryPairs, exps \in ExpenseListsUpTo(MaxExpenses)}

\* months by closed flag and balance: closed +1200, closed -300, open +900,
\* closed +500, open -300
SavingsMonths ==
    {MkMonth(Today, <<1200, 0, TRUE>>, <<>>),
     MkMonth(Today, <<0, 0, TRUE>>, <<ExpenseOfKind(1, <<"variable", 300>>)>>),
     MkMonth(Today, <<900, 0, FALSE>>, <<>>),
     MkMonth(Today, <<3000, 0, TRUE>>,
             <<ExpenseOfKind(1, <<"fixed", 2000>>), ExpenseOfKind(2, <<"variable", 500>>)>>),
     MkMonth(Today, <<0, 0, FALSE>>, <<ExpenseOfKind(1, <<"variable", 300>>)>>)}

\* the arguments of calculateAccumulatedSavings
SavingsArgs == UNION {[1..k -> SavingsMonths] : k \in 0..MaxMonths}

\* str.padStart(2, '0')
PadStart2(str) == IF Len(str) < 2 THEN <<Zero>> \o str ELSE str

\* generateMonthId (financeService.ts:19-23); date.year is what
\* getFullYear() gives and date.month what getMonth() gives (0-11)
generateMonthId(date) ==
    LET year == date.year
        month == PadStart2(DecimalString(date.month + 1))
    IN  DecimalString(year) \o <<Hyphen>> \o month

\* a < b on strings: the order of the code units at the first difference,
\* a proper prefix coming first
StringLess(a, b) ==
    \E k \in 1..(Len(a) + 1) :
        /\ k <= Len(b)
        /\ \A i \in 1..(k - 1) : a[i] = b[i]
        /\ k = Len(a) + 1 \/ a[k] < b[k]

\* the years of the dates given to generateMonthId: on both sides of the
\* years written with four digits, and two years that follow each other
DateYears == {999, 1000, 2024, 2025, 9999, 10000}

DateDays == {1, 28}

Dates == [year : DateYears, month : 0..11, day : DateDays]

NoCall == [fn |-> "none"]

\* str.split('-'): the fields between the hyphens of str
RECURSIVE Split(_)
Split(str) ==
    IF \A i \in DOMAIN str : str[i] # Hyphen THEN <<str>>
    ELSE LET k == CHOOSE i \in DOMAIN str :
                      str[i] = Hyphen /\ \A j \in 1..(i - 1) : str[j] # Hyphen IN
         <<SubSeq(str, 1, k - 1)>> \o Split(SubSeq(str, k + 1, Len(str)))

\* the date given to an imported expense (App.tsx:270-275, 432-436): the
\* day field of the source date, or '01', after the year and month of the
\* target
importedDate(date, currentYear, currentMonth) ==
    LET parts == Split(date)
        day == IF Len(parts) >= 3 /\ parts[3] # <<>> THEN parts[3]
               ELSE <<Zero, Zero + 1>> IN
    DecimalString(currentYear) \o <<Hyphen>>
        \o PadStart2(DecimalString(currentMonth)) \o <<Hyphen>> \o day

\* parseInt(str) for a string of digits
parseInt(str) == NumberOf(str)

\* the YYYY-MM-DD string of a date, as <input type="date"> gives it
\* (App.tsx:719)
IsoDate(year, month, day) ==
    DecimalString(year) \o <<Hyphen>> \o PadStart2(DecimalString(month))
        \o <<Hyphen>> \o PadStart2(DecimalString(day))

\* the dates of the source expenses: days of January 2025, or no date
SourceDays == {1, 28, 29, 30, 31}

SourceDates == {<<>>} \cup {IsoDate(2025, 1, d) : d \in SourceDays}

\* the months expenses are imported into: every month of a leap year and of
\* a common year
TargetMonths == [year : {2024, 2025}, month : 0..11, day : {1}]

InitPure ==
    /\ monthsTable = {}
    /\ expensesTable = {}
    /\ calls = [p \in Procs |-> IdleCall]
    /\ started = 0
    /\ generated = 0
    /\ upserted = {}
    /\ lastClean = NoClean
    /\ lastUpsertBy = 0
    /\ user = ""
    /\ months = <<>>
    /\ currentMonthId = ""
    /\ dataLoading = FALSE
    /\ saveStatus = "idle"
    /\ timeout = 0
    /\ debounceTimers = {}
    /\ resetTimers = {}
    /\ nextUuid = 1
    /\ actions = 0
    /\ burst = NoBurst
    /\ unsaved = {}
    /\ slowTicks = 0
    /\ failures = 0
    /\ owner = ""
    /\ deleted = {}
    /\ arg \in {[fn |-> "calculateTotals", monthData |-> m] : m \in TotalsArgs}
             \cup {[fn |-> "calculateAccumulatedSavings", months |-> ms] :
                       ms \in SavingsArgs}
             \cup {[fn |-> "generateMonthId", dates |-> <<d1, d2>>] :
                       d1 \in Dates, d2 \in Dates}
             \cup {[fn |-> "importedDate", date |-> d, target |-> t] :
                       d \in SourceDates, t \in TargetMonths}
    /\ ret = NoCall

CallCalculateTotals ==
    /\ arg.fn = "calculateTotals"
    /\ ret = NoCall
    /\ ret' = [fn |-> arg.fn, value |-> calculateTotals(arg.monthData)]
    /\ UNCHANGED <<arg, monthsTable, expensesTable, calls, started, generated, upserted,
                   lastClean, lastUpsertBy, user, months, currentMonthId, dataLoading,
                   saveStatus, timeout, debounceTimers, resetTimers, nextUuid, actions,
                   burst, unsaved, slowTicks, failures, owner, deleted>>

CallCalculateAccumulatedSavings ==
    /\ arg.fn = "calculateAccumulatedSavings"
    /\ ret = NoCall
    /\ ret' = [fn |-> arg.fn, value |-> calculateAccumulatedSavings(arg.months)]
    /\ UNCHANGED <<arg, monthsTable, expensesTable, calls, started, generated, upserted,
                   lastClean, lastUpsertBy, user, months, currentMonthId, dataLoading,
                   saveStatus, timeout, debounceTimers, resetTimers, nextUuid, actions,
                   burst, unsaved, slowTicks, failures, owner, deleted>>

\* generateMonthId called for two dates, as for the ids that the sorts of
\* App.tsx compare (App.tsx:258-259)
CallGenerateMonthId ==
    /\ arg.fn = "generateMonthId"
    /\ ret = NoCall
    /\ ret' = [fn |-> arg.fn,
               value |-> <<generateMonthId(arg.dates[1]), generateMonthId(arg.dates[2])>>]
    /\ UNCHANGED <<arg, monthsTable, expensesTable, calls, started, generated, upserted,
                   lastClean, lastUpsertBy, user, months, currentMonthId, dataLoading,
                   saveStatus, timeout, debounceTimers, resetTimers, nextUuid, actions,
                   burst, unsaved, slowTicks, failures, owner, deleted>>

\* the date of an expense imported into the month of arg.target: by
\* handleCreateSpecificMonth (App.tsx:263-275), from the date of the new
\* month, and by handleImportFixedExpenses (App.tsx:425-436), from the id of
\* the current month
CallImportedDate ==
    LET id == generateMonthId(arg.target) IN
    /\ arg.fn = "importedDate"
    /\ ret = NoCall
    /\ ret' = [fn |-> arg.fn,
               value |-> <<importedDate(arg.date, arg.target.year, arg.target.month + 1),
                           importedDate(arg.date, parseInt(Split(id)[1]),
                                        parseInt(Split(id)[2]))>>]
    /\ UNCHANGED <<arg, monthsTable, expensesTable, calls, started, generated, upserted,
                   lastClean, lastUpsertBy, user, months, currentMonthId, dataLoading,
                   saveStatus, timeout, debounceTimers, resetTimers, nextUuid, actions,
                   burst, unsaved, slowTicks, failures, owner, deleted>>

NextPure ==
    \/ CallCalculateTotals
    \/ CallCalculateAccumulatedSavings
    \/ CallGenerateMonthId
    \/ CallImportedDate

SpecPure == InitPure /\ [][NextPure]_vars

-----------------------------------------------------------------------------
(* SpecMonths: the life of the months in a session of App.tsx. The user is  *)
(* logged in and the months are loaded; the user edits, closes, resets,     *)
(* creates and deletes months, and the autosave runs, every remote call     *)
(* succeeding and answering before the next tick                            *)

\* const totals = useMemo(() => calculateTotals(currentMonthData), ...)
\* (App.tsx:237)
totals == calculateTotals(currentMonthData(months, currentMonthId))

\* handleDeleteMonth(id), confirmed (App.tsx:299-312); months.length
\* changes, so the save trigger runs
handleDeleteMonth ==
    /\ Interactive
    /\ \E m \in Range(months) :
           /\ months' = SelectSeq(months, LAMBDA x : x.id # m.id)
           /\ currentMonthId' = IF currentMonthId = m.id THEN "" ELSE currentMonthId
           /\ deleted' = deleted \cup {m.id}
           /\ unsaved' = unsaved \ {m.id}
           /\ SaveTrigger(TRUE, user, months', currentMonthId')
    /\ actions' = actions + 1
    /\ UNCHANGED <<user, dataLoading, saveStatus, resetTimers, nextUuid, slowTicks,
                   failures, owner, pureVars, storeVars, callVars>>

\* handleResetMonth, confirmed (App.tsx:314-324)
handleResetMonth ==
    /\ Interactive
    /\ AfterUpdateCurrentMonth(
           updateCurrentMonth(months, currentMonthId,
               [m \in Range(months) |->
                   [m EXCEPT !.salary1 = 0, !.salary2 = 0, !.expenses = <<>>,
                             !.closed = FALSE]]))
    /\ UNCHANGED nextUuid

\* handleUpdateExpense (App.tsx:366-383), the expense being edited one of
\* the current month
UpdateExpense(expenseForm) ==
    /\ Interactive
    /\ \E editingExpense \in Range(currentMonthData(months, currentMonthId).expenses) :
           IF expenseForm.name = "" \/ expenseForm.value = <<>>
           THEN ReturnEarly
           ELSE /\ AfterUpdateCurrentMonth(
                       updateCurrentMonth(months, currentMonthId,
                           [m \in Range(months) |->
                               [m EXCEPT !.expenses =
                                   [i \in DOMAIN @ |->
                                       IF @[i].id = editingExpense.id
                                       THEN [@[i] EXCEPT
                                                !.name = expenseForm.name,
                                                !.value = Number(expenseForm.value),
                                                !.category = expenseForm.category,
                                                !.date = expenseForm.date]
                                       ELSE @[i]]]]))
                /\ UNCHANGED nextUuid

handleUpdateExpense == \E expenseForm \in ExpenseForms : UpdateExpense(expenseForm)

\* handleImportFixedExpenses, confirmed (App.tsx:407-444): nothing happens
\* when the current month has no month before it or that month has no
\* fixed expense
handleImportFixedExpenses ==
    /\ Interactive
    /\ HasMonth(months, currentMonthId)
    /\ LET previous == PreviousMonths(months, currentMonthId)
           prevMonth == CHOOSE m \in previous : TRUE
           newExpenses == ImportedExpenses(prevMonth, currentMonthId, nextUuid) IN
       /\ previous # {}
       /\ Len(newExpenses) > 0
       /\ nextUuid' = nextUuid + Len(newExpenses)
       /\ AfterUpdateCurrentMonth(
              updateCurrentMonth(months, currentMonthId,
                  [m \in Range(months) |-> [m EXCEPT !.expenses = @ \o newExpenses]]))

\* mutant of handleCloseMonth: the balance is not looked at
handleCloseMonthAnyBalance ==
    /\ Interactive
    /\ AfterUpdateCurrentMonth(
           updateCurrentMonth(months, currentMonthId,
               [m \in Range(months) |-> [m EXCEPT !.closed = TRUE]]))
    /\ UNCHANGED nextUuid

\* handleCloseMonth (App.tsx:446-453)
handleCloseMonth ==
    /\ Interactive
    /\ IF totals.balance <= 0
       THEN /\ actions' = actions + 1
            /\ UNCHANGED <<user, months, currentMonthId, dataLoading, saveStatus,
                           timeout, debounceTimers, resetTimers, burst, unsaved,
                           slowTicks, failures, owner, deleted, pureVars, storeVars,
                           callVars>>
       ELSE AfterUpdateCurrentMonth(
                updateCurrentMonth(months, currentMonthId,
                    [m \in Range(months) |-> [m EXCEPT !.closed = TRUE]]))
    /\ UNCHANGED nextUuid

\* the months in memory when the session is observed: the initial month of a
\* new user, or a month with salaries and a fixed expense
StartMonths ==
    {getInitialMonth,
     MkMonth(Today, <<5000, 3000, FALSE>>, <<MkExpense(1, 2000, Today)>>)}

\* the state after loadData and the autosave that follows it: the store
\* holds the month that is in memory
InitMonths ==
    \E m \in StartMonths :
        /\ monthsTable = {MonthRowOf(1, MonthPayload("u1", m))}
        /\ expensesTable = ExpensesToUpsert("u1", 1, m)
        /\ calls = [p \in Procs |-> IdleCall]
        /\ started = 0
        /\ generated = 0
        /\ upserted = {MonthPayload("u1", m)}
        /\ lastClean = NoClean
        /\ lastUpsertBy = 0
        /\ user = "u1"
        /\ months = <<m>>
        /\ currentMonthId = m.id
        /\ dataLoading = FALSE
        /\ saveStatus = "idle"
        /\ timeout = 0
        /\ debounceTimers = {}
        /\ resetTimers = {}
        /\ nextUuid = 1 + Len(m.expenses)
        /\ actions = 0
        /\ burst = NoBurst
        /\ unsaved = {}
        /\ slowTicks = 0
        /\ failures = 0
        /\ owner = "u1"
        /\ deleted = {}
        /\ arg = NoCall
        /\ ret = NoCall

\* a tick of the clock between remote calls
QuietTick == Quiet /\ Tick

NextMonths ==
    \/ handleSaveSalaries
    \/ handleAddExpense
    \/ handleUpdateExpense
    \/ handleDeleteExpense
    \/ handleImportFixedExpenses
    \/ handleSelectMonth
    \/ handleCreateSpecificMonth
    \/ handleDeleteMonth
    \/ handleResetMonth
    \/ handleCloseMonth
    \/ QuietTick
    \/ DebounceFire
    \/ ResetFire
    \/ RaceUpsertMonth
    \/ RaceSelectExisting
    \/ RaceDeleteRemoved
    \/ RaceUpsertExpenses

SpecMonths == InitMonths /\ [][NextMonths]_vars

-----------------------------------------------------------------------------
(* SpecForms: the salary form and the expense form of App.tsx submitted     *)
(* with anything the inputs let the user type, in the session of            *)
(* SpecMonths, with the removal of expenses and the autosave                *)

\* what the salary inputs (App.tsx:660-673) can hold: nothing, an amount, a
\* negative amount
TypedSalaryForms ==
    {[salary1 |-> <<>>, salary2 |-> <<>>],
     [salary1 |-> DecimalString(5000), salary2 |-> DecimalString(3000)],
     [salary1 |-> <<Hyphen>> \o DecimalString(500), salary2 |-> DecimalString(3000)]}

\* what the expense form (App.tsx:725-750) can hold: a name or none; no
\* value, zero, an amount, a negative amount
TypedExpenseForms ==
    [name : {"", "Aluguel"},
     value : {<<>>, DecimalString(0), DecimalString(2000),
              <<Hyphen>> \o DecimalString(50)},
     category : {"Moradia"},
     date : {<<Today, 5>>}]

\* the forms handleAddExpense and handleUpdateExpense return on
RejectedExpenseForms == {f \in TypedExpenseForms : f.name = "" \/ f.value = <<>>}

SaveTypedSalaries == \E salaryForm \in TypedSalaryForms : SaveSalaries(salaryForm)

AddTypedExpense == \E expenseForm \in TypedExpenseForms : AddExpense(expenseForm)

UpdateTypedExpense == \E expenseForm \in TypedExpenseForms : UpdateExpense(expenseForm)

NextForms ==
    \/ SaveTypedSalaries
    \/ AddTypedExpense
    \/ UpdateTypedExpense
    \/ handleDeleteExpense
    \/ QuietTick
    \/ DebounceFire
    \/ ResetFire
    \/ RaceUpsertMonth
    \/ RaceSelectExisting
    \/ RaceDeleteRemoved
    \/ RaceUpsertExpenses

SpecForms == InitMonths /\ [][NextForms]_vars

-----------------------------------------------------------------------------
(* SpecLoad: a login of App.tsx against a store that already holds months   *)
(* of the user, or none: loadData, the autosave that follows it, and the    *)
(* removal of expenses, every remote call succeeding                        *)

\* the month the store holds for a month id: with two expenses, with one,
\* with none
StoredMonth(code) ==
    IF code = "2025-03"
    THEN MkMonth(code, <<5000, 3000, FALSE>>,
                 <<MkExpense(1, 2000, code), MkExpense(2, 500, code)>>)
    ELSE IF code = "2025-04"
    THEN MkMonth(code, <<4000, 0, FALSE>>, <<MkExpense(3, 500, code)>>)
    ELSE MkMonth(code, <<4000, 0, FALSE>>, <<>>)

StoredCodes == {"2025-03", "2025-04", "2025-05"}

\* the row id of the month of user u1 with the given id; row 4 is a month
\* of user u2
StoredRowId(code) == MonthOrdinal(code) - 2

OtherUserMonth == MkMonth("2025-03", <<4000, 0, FALSE>>, <<MkExpense(4, 500, "2025-03")>>)

InitLoad ==
    \E codes \in SUBSET StoredCodes :
        /\ monthsTable =
               {MonthRowOf(StoredRowId(code), MonthPayload("u1", StoredMonth(code))) :
                    code \in codes}
               \cup {MonthRowOf(4, MonthPayload("u2", OtherUserMonth))}
        /\ expensesTable =
               UNION {ExpensesToUpsert("u1", StoredRowId(code), StoredMonth(code)) :
                          code \in codes}
               \cup ExpensesToUpsert("u2", 4, OtherUserMonth)
        /\ calls = [p \in Procs |-> IdleCall]
        /\ started = 0
        /\ generated = 0
        /\ upserted = {MonthPayload("u1", StoredMonth(code)) : code \in codes}
                          \cup {MonthPayload("u2", OtherUserMonth)}
        /\ lastClean = NoClean
        /\ lastUpsertBy = 0
        /\ user = ""
        /\ months = <<>>
        /\ currentMonthId = ""
        /\ dataLoading = FALSE
        /\ saveStatus = "idle"
        /\ timeout = 0
        /\ debounceTimers = {}
        /\ resetTimers = {}
        /\ nextUuid = 5
        /\ actions = 0
        /\ burst = NoBurst
        /\ unsaved = {}
        /\ slowTicks = 0
        /\ failures = 0
        /\ owner = ""
        /\ deleted = {}
        /\ arg = NoCall
        /\ ret = NoCall

\* the session of user u1 begins
LogIn == user = "" /\ AuthStateChange("u1")

LoadSelectMonths == \E p \in Procs : GetMonthsSelectMonths(p, TRUE)

LoadSelectExpenses == \E p \in Procs : GetMonthsSelectExpenses(p, TRUE)

NextLoad ==
    \/ LogIn
    \/ LoadSelectMonths
    \/ LoadSelectExpenses
    \/ RaceUpsertMonthInLoop
    \/ RaceDeleteAll
    \/ handleDeleteExpense
    \/ QuietTick
    \/ DebounceFire
    \/ ResetFire
    \/ RaceUpsertMonth
    \/ RaceSelectExisting
    \/ RaceDeleteRemoved
    \/ RaceUpsertExpenses

SpecLoad == InitLoad /\ [][NextLoad]_vars

-----------------------------------------------------------------------------
(* Properties of the reconciliation engine                                  *)

ExpenseSet(month) == Range(month.expenses)

\* a getMonths call that returned, having started after a saveMonth of the
\* same user that ran alone with every remote call succeeding, no save
\* having started since
LoadsAfterCleanSave ==
    {p \in Procs : /\ calls[p].kind = "getMonths"
                   /\ calls[p].pc = "returned"
                   /\ calls[p].prev # NoClean
                   /\ calls[p].prev.userId = calls[p].userId}

\* the positions of the month with the given id in a getMonths result
Hits(result, id) == {i \in DOMAIN result : result[i].id = id}

\* C1: round trip. A getMonths that follows a successful, non-overlapped
\* saveMonth of the same user returns exactly one Month with the saved id,
\* with the saved salary1, salary2 and closed, and with the saved expenses
\* (as a set of id/name/value/category/date/type records), whatever the
\* remote store held before.
C1_RoundTrip ==
    \A p \in LoadsAfterCleanSave :
        LET saved == calls[p].prev.month
            result == calls[p].result IN
        /\ Cardinality(Hits(result, saved.id)) = 1
        /\ \A i \in Hits(result, saved.id) :
            /\ result[i].salary1 = saved.salary1
            /\ result[i].salary2 = saved.salary2
            /\ result[i].closed = saved.closed
            /\ ExpenseSet(result[i]) = ExpenseSet(saved)
            /\ Len(result[i].expenses) = Len(saved.expenses)

\* C1 witness: a month with two expenses was saved over a store that held
\* other data, and the load returned two months
C1_Witness ==
    \E p \in LoadsAfterCleanSave :
        /\ Len(calls[p].prev.month.expenses) = 2
        /\ Len(calls[p].result) = 2

\* a load after two successive clean saves of the same month of one user
LoadsAfterTwoSaves ==
    {p \in LoadsAfterCleanSave :
        /\ calls[p].prev.prevUserId = calls[p].prev.userId
        /\ calls[p].prev.prevMonth.id = calls[p].prev.month.id}

\* C2: deletion propagation. After a month was saved with expenses S1 and
\* then saved again with expenses S2, getMonths returns exactly S2 for the
\* month, and no row with an id of S1 \ S2 is left in the remote store.
C2_DeletionPropagation ==
    \A p \in LoadsAfterTwoSaves :
        LET s1 == calls[p].prev.prevMonth
            s2 == calls[p].prev.month
            result == calls[p].result IN
        /\ \A i \in Hits(result, s2.id) : ExpenseSet(result[i]) = ExpenseSet(s2)
        /\ Hits(result, s2.id) # {}
        /\ \A id \in CurrentIds(s1) \ CurrentIds(s2) :
                \A e \in expensesTable : e.id # id

\* C2 witness: the second save dropped an expense of the first
C2_Witness ==
    \E p \in LoadsAfterTwoSaves :
        /\ CurrentIds(calls[p].prev.prevMonth) \ CurrentIds(calls[p].prev.month) # {}
        /\ CurrentIds(calls[p].prev.month) # {}

\* C3: idempotence. When saveMonth ran twice in succession with the same
\* (userId, month), the second call left the remote store exactly as the
\* first had left it, with one Month row for (userId, month.id) and one
\* Expense row per expense id.
C3_Idempotence ==
    (/\ lastClean # NoClean
     /\ lastClean.prevUserId = lastClean.userId
     /\ lastClean.prevMonth = lastClean.month)
    => /\ monthsTable = lastClean.prevMonths
       /\ expensesTable = lastClean.prevExpenses
       /\ Cardinality({r \in monthsTable : /\ r.user_id = lastClean.userId
                                           /\ r.month_code = lastClean.month.id}) = 1
       /\ \A id \in CurrentIds(lastClean.month) :
            Cardinality({e \in expensesTable : e.id = id}) = 1
       /\ Cardinality(expensesTable) = Cardinality({e.id : e \in expensesTable})

\* C3 witness: the same month with two expenses was saved twice
C3_Witness ==
    /\ lastClean # NoClean
    /\ lastClean.prevUserId = lastClean.userId
    /\ lastClean.prevMonth = lastClean.month
    /\ Len(lastClean.month.expenses) = 2

\* C7: Month-level write failure. The step in which the Month upsert of a
\* saveMonth fails ends the call with that error raised, no expense read,
\* delete or upsert having been issued, and leaves the remote Expense rows
\* as they were.
C7_MonthFailure ==
    [][\A p \in Procs :
        (calls'[p].error = "monthError" /\ calls[p].pc = "upsertMonth")
        => /\ calls'[p].pc = "threw"
           /\ calls'[p].issued = {"upsertMonth"}
           /\ expensesTable' = expensesTable
           /\ monthsTable' = monthsTable]_vars

\* C7 witness: the Month upsert failed for a month that has remote expenses
C7_Witness ==
    \E p \in Procs :
        /\ calls[p].error = "monthError"
        /\ calls[p].pc = "threw"
        /\ \E r \in monthsTable, e \in expensesTable :
            /\ r.user_id = calls[p].userId
            /\ r.month_code = calls[p].month.id
            /\ e.month_id = r.id

\* the remote expenses of the month (userId, code), as client Expense records
RemoteExpensesOf(userId, code) ==
    {ExpenseOfRow(e) : e \in {x \in expensesTable :
        \E r \in monthsTable : /\ r.user_id = userId
                               /\ r.month_code = code
                               /\ x.month_id = r.id}}

\* C4: last writer wins. When two saveMonth calls for the same (userId,
\* month id) overlapped, every remote call of both succeeding, and both have
\* finished, the remote Expense set of the month equals the expenses of the
\* call whose Expense upsert completed last.
C4_LastWriterWins ==
    \A p, q \in Procs :
        (/\ p # q
         /\ calls[p].kind = "saveMonth" /\ calls[q].kind = "saveMonth"
         /\ calls[p].pc = "returned" /\ calls[q].pc = "returned"
         /\ calls[p].overlapped /\ calls[q].overlapped
         /\ calls[p].failed = {} /\ calls[q].failed = {}
         /\ calls[p].userId = calls[q].userId
         /\ calls[p].month.id = calls[q].month.id
         /\ "upsertExpenses" \in calls[q].issued
         /\ lastUpsertBy = p)
        => RemoteExpensesOf(calls[p].userId, calls[p].month.id) = ExpenseSet(calls[p].month)

\* C9: the Month record is never lost or reverted. Every (user, month id)
\* whose Month upsert succeeded at some time has a remote Month row holding
\* the label, salaries and closed flag of the latest successful upsert,
\* whatever later Expense steps of saveMonth or saveMonths failed.
C9_MonthNeverLost ==
    \A u \in upserted :
        \E r \in monthsTable : r = MonthRowOf(r.id, u)

\* C9 witness: a second saveMonth of a month changed the Month row and then
\* failed on its Expense upsert, the month having remote expenses
C9_Witness ==
    \E p \in Procs :
        /\ calls[p].error = "upsertError"
        /\ calls[p].month.closed
        /\ MonthPayload(calls[p].userId, calls[p].month) \in upserted
        /\ RemoteExpensesOf(calls[p].userId, calls[p].month.id) # {}

-----------------------------------------------------------------------------
(* Properties of the application                                            *)

\* C5: debounce coalescing. In a burst of calls of the debounced save, each
\* less than the quiet period after the previous one, at most one timer is
\* pending, that of the last call (every earlier one is cancelled); the
\* action runs exactly once, exactly one quiet period after the last call
\* and with the arguments of the last call.
C5_DebounceCoalescing ==
    /\ Cardinality(debounceTimers) <= 1
    /\ burst.execs <= 1
    /\ burst.execs = 1 =>
           /\ burst.execSince = QuietPeriod
           /\ burst.execArgs = burst.args
    /\ (burst.n > 0 /\ burst.execs = 0) =>
           \E t \in debounceTimers :
               /\ t.remaining = QuietPeriod - burst.since
               /\ t.userId = burst.args.userId
               /\ t.monthData = burst.args.monthData
    /\ burst.since > QuietPeriod => burst.execs = 1

\* C5 witness: a burst of three calls was followed by one save, with the
\* month as it was at the third call
C5_Witness ==
    /\ burst.n = 3
    /\ burst.execs = 1
    /\ burst.execSince = QuietPeriod
    /\ burst.execArgs = burst.args
    /\ Len(burst.args.monthData.expenses) > 0

\* the user stopped acting and nothing is pending: no timer of the debounced
\* save, no remote call, no load
Quiescent ==
    /\ user # ""
    /\ ~dataLoading
    /\ debounceTimers = {}
    /\ \A q \in Procs : Finished(calls[q])

\* C6: every local mutation is eventually saved. Once the user stopped
\* acting and nothing is pending, no remote call having failed, every month
\* that was mutated locally has been passed to saveMonth with its latest
\* in-memory state.
C6_EveryMutationSaved ==
    (Quiescent /\ failures = 0) => unsaved = {}

\* a saveMonth of the debounced save whose Month upsert succeeded finished
SavedPastMonth(c) ==
    /\ c.caller = "debouncedSave"
    /\ c.kind = "saveMonth"
    /\ Finished(c)
    /\ "selectExisting" \in c.issued

C10_LoadFailurePropagates ==
    [][\A p \in Procs :
        (/\ calls[p].kind = "getMonths"
         /\ ~Finished(calls[p])
         /\ calls'[p].failed # {})
        => /\ calls'[p].pc = "threw"
           /\ calls'[p].error = IF calls[p].pc = "selectMonths"
                                THEN "monthsError"
                                ELSE "expensesError"
           /\ calls'[p].result = <<>>
           /\ months' = months
           /\ currentMonthId' = currentMonthId]_vars

\* C10 witness: the Expense read of a load failed, the remote store holding
\* months of the user and the application holding months in memory
C10_Witness ==
    \E p \in Procs :
        /\ calls[p].caller = "loadData"
        /\ calls[p].kind = "getMonths"
        /\ calls[p].error = "expensesError"
        /\ calls[p].pc = "threw"
        /\ Len(months) > 0

-----------------------------------------------------------------------------
(* Properties of the full save                                              *)

\* C11: the full save keeps iterating. No step of a saveMonths call, whether
\* its remote call failed or not, raises an error, and none ends the call
\* while months after the current one are left: the call goes on with the
\* current month or with the next one.
C11_FullSaveKeepsIterating ==
    [][\A p \in Procs :
        (/\ calls[p].kind = "saveMonths"
         /\ ~Finished(calls[p])
         /\ calls'[p] # calls[p])
        => /\ calls'[p].pc # "threw"
           /\ calls'[p].error = "none"
           /\ Len(calls[p].months) > 1 =>
                  /\ ~Finished(calls'[p])
                  /\ calls'[p].months \in {calls[p].months, Tail(calls[p].months)}]_vars

\* C11 witness: a saveMonths of two months over a store without them
\* returned; the Month upsert of the first failed, and the second is stored
C11_Witness ==
    \E p \in Procs :
        /\ calls[p].kind = "saveMonths"
        /\ calls[p].pc = "returned"
        /\ calls[p].failed = {"upsertMonth"}
        /\ \E r \in monthsTable :
               r.user_id = calls[p].userId /\ r.month_code = "2025-04"
        /\ ~\E r \in monthsTable :
               r.user_id = calls[p].userId /\ r.month_code = "2025-03"

\* C12: the full save abandons a month whose delete step failed. When the
\* delete of a month's Expense rows fails in saveMonths, no Expense insert is
\* issued for that month.
C12_FailedDeleteAbandonsMonth ==
    [][\A p \in Procs :
        (/\ calls[p].kind = "saveMonths"
         /\ calls[p].pc = "deleteAll"
         /\ "deleteAll" \notin calls[p].failed
         /\ "deleteAll" \in calls'[p].failed)
        => calls'[p].pc # "insertExpenses"]_vars

-----------------------------------------------------------------------------
(* Properties of expense identity and of the Month rows                     *)

\* what getMonths(userId) returns when it reads the store (mTable, eTable)
\* and both reads succeed (financeService.ts:58-107), the rows taken in one
\* of the orders the store may return them
LoadedMonths(mTable, eTable, userId) ==
    LET monthsData == CHOOSE s \in Orderings(SelectMonths(mTable, userId)) : TRUE
        monthIds == {m.id : m \in Range(monthsData)}
        expensesData == CHOOSE s \in Orderings(SelectExpensesIn(eTable, monthIds)) : TRUE
    IN  JoinMonths(monthsData, expensesData)

\* the month a save call is working on
SavingMonth(c) == IF c.kind = "saveMonth" THEN c.month ELSE Head(c.months)

\* C13: expense identity is stable across sync. When a saveMonth or a
\* saveMonths call that ran alone returns with every remote call having
\* succeeded, a getMonths of the store it leaves returns the month it saved
\* last with exactly the Expense ids the client passed.
C13_ExpenseIdentityStable ==
    [][\A p \in Procs :
        (/\ IsSave(calls[p])
         /\ ~Finished(calls[p])
         /\ calls'[p].pc = "returned"
         /\ calls'[p].failed = {}
         /\ ~calls'[p].overlapped)
        => LET m == SavingMonth(calls[p])
               loaded == LoadedMonths(monthsTable', expensesTable', calls[p].userId)
           IN  \A i \in DOMAIN loaded :
                   loaded[i].id = m.id
                   => {e.id : e \in Range(loaded[i].expenses)} = CurrentIds(m)]_vars

\* C14: remote Month uniqueness. Whatever saveMonth and saveMonths calls ran,
\* one after the other or overlapping, the store holds at most one Month row
\* per (user id, month id).
C14_MonthRowUnique ==
    \A r1, r2 \in monthsTable :
        (r1.user_id = r2.user_id /\ r1.month_code = r2.month_code) => r1 = r2

\* C14 witness: two saves of the same new month overlapped from their start,
\* both upserted the Month and both finished
C14_Witness ==
    /\ calls[1].pc = "returned" /\ calls[2].pc = "returned"
    /\ calls[1].overlapped /\ calls[2].overlapped
    /\ calls[1].kind = "saveMonth" /\ calls[2].kind = "saveMonths"
    /\ calls[1].userId = calls[2].userId
    /\ started = 2
    /\ Cardinality(monthsTable) = 1

-----------------------------------------------------------------------------
(* Properties of the session                                                *)

\* C15: no cross-user data. The in-memory months are the ones loaded or
\* created for the authenticated user, and a save scheduled by the save
\* trigger pairs the user id with months of that user.
C15_NoCrossUserData ==
    /\ months # <<>> => owner = user
    /\ \A t \in debounceTimers : t.remaining = QuietPeriod => t.userId = owner

-----------------------------------------------------------------------------
(* Properties of the totals and of the accumulated savings                  *)

\* the sum of the values of the expenses at the positions I of a list
RECURSIVE ValueAt(_, _)
ValueAt(expenses, I) ==
    IF I = {} THEN 0
    ELSE LET i == CHOOSE j \in I : TRUE IN
         expenses[i].value + ValueAt(expenses, I \ {i})

\* the sum of the values of the expenses of month m that have the type
ValueOfType(m, type) ==
    ValueAt(m.expenses, {i \in DOMAIN m.expenses : m.expenses[i].type = type})

\* the (type, value) pairs of the expenses of a month, in order
KindsOf(m) == [i \in DOMAIN m.expenses |-> <<m.expenses[i].type, m.expenses[i].value>>]

\* C19: calculateTotals of a Month returns income = salary1 + salary2, fixed
\* and variable = the sums of the values of the expenses of each type,
\* totalExpenses = fixed + variable and balance = income - totalExpenses;
\* salaries 5000 and 3000 with a fixed expense 2000 and a variable expense
\* 500 give 8000, 2000, 500, 2500, 5500.
C19_TotalsOfMonth ==
    (ret.fn = "calculateTotals" /\ arg.monthData # Undefined)
    => LET m == arg.monthData
           t == ret.value
       IN  /\ t.income = m.salary1 + m.salary2
           /\ t.fixed = ValueOfType(m, "fixed")
           /\ t.variable = ValueOfType(m, "variable")
           /\ t.totalExpenses = t.fixed + t.variable
           /\ t.balance = t.income - t.totalExpenses
           /\ (/\ m.salary1 = 5000 /\ m.salary2 = 3000
               /\ KindsOf(m) = <<(<<"fixed", 2000>>), (<<"variable", 500>>)>>)
              => t = [income |-> 8000, fixed |-> 2000, variable |-> 500,
                      totalExpenses |-> 2500, balance |-> 5500]

\* C19 witness: calculateTotals returned for the month of the example
C19_Witness ==
    /\ ret.fn = "calculateTotals"
    /\ arg.monthData # Undefined
    /\ arg.monthData.salary1 = 5000 /\ arg.monthData.salary2 = 3000
    /\ KindsOf(arg.monthData) = <<(<<"fixed", 2000>>), (<<"variable", 500>>)>>
    /\ ret.value.balance = 5500

\* the sum of max(balance, 0) over the months at the positions I of a list
RECURSIVE PositiveBalanceAt(_, _)
PositiveBalanceAt(ms, I) ==
    IF I = {} THEN 0
    ELSE LET i == CHOOSE j \in I : TRUE
             balance == calculateTotals(ms[i]).balance
         IN  (IF balance > 0 THEN balance ELSE 0) + PositiveBalanceAt(ms, I \ {i})

\* (closed, balance) of the months of a list, in order
ClosedAndBalance(ms) ==
    [i \in DOMAIN ms |-> <<ms[i].closed, calculateTotals(ms[i]).balance>>]

\* C20: calculateAccumulatedSavings of a Month collection is the sum of
\* max(balance, 0) over exactly the months with closed = true; closed +1200,
\* closed -300 and open +900 give 1200.
C20_SavingsOfClosedMonths ==
    ret.fn = "calculateAccumulatedSavings"
    => /\ ret.value = PositiveBalanceAt(arg.months,
                          {i \in DOMAIN arg.months : arg.months[i].closed})
       /\ ClosedAndBalance(arg.months)
             = <<(<<TRUE, 1200>>), (<<TRUE, 0 - 300>>), (<<FALSE, 900>>)>>
          => ret.value = 1200

\* C20 witness: calculateAccumulatedSavings returned for the collection of
\* the example
C20_Witness ==
    /\ ret.fn = "calculateAccumulatedSavings"
    /\ ClosedAndBalance(arg.months)
          = <<(<<TRUE, 1200>>), (<<TRUE, 0 - 300>>), (<<FALSE, 900>>)>>
    /\ ret.value = 1200

-----------------------------------------------------------------------------
(* Properties of the life of a month                                        *)

\* C16: month deletion reaches the remote store. Once nothing is pending, a
\* month the user deleted is in the in-memory collection no more, and
\* getMonths for the user does not return it.
C16_DeletedMonthLeavesRemote ==
    Quiescent
    => \A id \in deleted :
           /\ ~HasMonth(months, id)
           /\ ~HasMonth(LoadedMonths(monthsTable, expensesTable, user), id)

\* C17: closing is one-way. No step sets the closed flag of a month of the
\* in-memory collection back to false while the month exists.
C17_ClosingIsOneWay ==
    [][\A i \in DOMAIN months : \A j \in DOMAIN months' :
          (months[i].closed /\ months'[j].id = months[i].id) => months'[j].closed]_vars

\* the months of the collection that a step closed
NewlyClosed ==
    {j \in DOMAIN months' :
        /\ months'[j].closed
        /\ ~\E i \in DOMAIN months : months[i].id = months'[j].id /\ months[i].closed}

\* C18: a Month is closed only with a positive balance. A step closes only
\* the current month, when calculateTotals of it gives balance > 0, and
\* changes nothing else in the collection; a handleCloseMonth with
\* balance <= 0 leaves the collection unchanged.
C18_ClosedOnlyWithPositiveBalance ==
    [][/\ \A j \in NewlyClosed :
              /\ HasMonth(months, currentMonthId)
              /\ months'[j].id = currentMonthId
              /\ calculateTotals(FindMonth(months, currentMonthId)).balance > 0
              /\ months' = [i \in DOMAIN months |->
                               IF months[i].id = currentMonthId
                               THEN [months[i] EXCEPT !.closed = TRUE]
                               ELSE months[i]]
       /\ (handleCloseMonth /\ totals.balance <= 0) => months' = months]_vars

\* C18 witness: a month is closed, and its balance is positive; no month is
\* closed when the session begins, so handleCloseMonth closed it
C18_Witness ==
    \E i \in DOMAIN months :
        /\ months[i].closed
        /\ calculateTotals(months[i]).balance > 0
        /\ actions > 0

\* every list that holds the elements of ms in another order, or the same
Reorderings(ms) ==
    {[i \in DOMAIN ms |-> ms[f[i]]] :
        f \in {g \in [DOMAIN ms -> DOMAIN ms] : \A i, j \in DOMAIN ms : g[i] = g[j] => i = j}}

\* ms with the month m put after its first k months
InsertAt(ms, k, m) == SubSeq(ms, 1, k) \o <<m>> \o SubSeq(ms, k + 1, Len(ms))

\* ms without its i-th month
RemoveAt(ms, i) == SubSeq(ms, 1, i - 1) \o SubSeq(ms, i + 1, Len(ms))

C22_TotalsOfUndefined ==
    (ret.fn = "calculateTotals" /\ arg.monthData = Undefined)
    => ret.value = [income |-> 0, fixed |-> 0, variable |-> 0, totalExpenses |-> 0,
                    balance |-> 0]

\* C22 witness: calculateTotals returned for undefined
C22_Witness ==
    /\ arg.fn = "calculateTotals"
    /\ arg.monthData = Undefined
    /\ ret.fn = "calculateTotals"

-----------------------------------------------------------------------------
(* Properties of the month ids                                              *)

\* id is the four-digit year of the date, a hyphen and the two-digit month
\* number 01-12
HasIdFormat(id, date) ==
    /\ Len(id) = 7
    /\ \A i \in {1, 2, 3, 4, 6, 7} : IsDigit(id[i])
    /\ id[5] = Hyphen
    /\ NumberOf(SubSeq(id, 1, 4)) = date.year
    /\ NumberOf(SubSeq(id, 6, 7)) = date.month + 1

\* C23: generateMonthId returns the four-digit year, a hyphen and the
\* two-digit zero-padded month number 01-12 of its date, and any two dates in
\* the same calendar month of the same year give the same id.
C23_MonthIdOfDate ==
    ret.fn = "generateMonthId"
    => /\ \A i \in {1, 2} : HasIdFormat(ret.value[i], arg.dates[i])
       /\ (/\ arg.dates[1].year = arg.dates[2].year
           /\ arg.dates[1].month = arg.dates[2].month)
          => ret.value[1] = ret.value[2]

\* the calendar month of d1 is before the calendar month of d2
MonthBefore(d1, d2) == d1.year * 12 + d1.month < d2.year * 12 + d2.month

\* C24: for any two dates, in any years, generateMonthId(d1) is
\* lexicographically smaller than generateMonthId(d2) exactly when the
\* calendar month of d1 is before the calendar month of d2.
C24_MonthIdOrderIsChronological ==
    ret.fn = "generateMonthId"
    => (StringLess(ret.value[1], ret.value[2]) <=> MonthBefore(arg.dates[1], arg.dates[2]))

-----------------------------------------------------------------------------
(* Properties of the autosave                                               *)

\* C25: at most one save is triggered per quiet period. The action of the
\* debounced save runs no less than the quiet period after the last call of
\* the debounced function, and it did not run before since the first call of
\* the burst: the execution before it came before a call that is itself at
\* least a quiet period old, so two consecutive executions are at least a
\* quiet period apart.
C25_OneSavePerQuietPeriod ==
    [][burst'.execs > burst.execs
       => /\ burst.since >= QuietPeriod
          /\ burst.execs = 0]_vars

\* C25 witness: the action ran for the current burst, a quiet period after
\* its last call, while the reset timer of the save before it is pending
C25_Witness ==
    /\ burst.execs = 1
    /\ burst.execSince = QuietPeriod
    /\ saveStatus = "saving"
    /\ resetTimers # {}

\* a saveMonth of the debounced save is in flight
SaveInFlight ==
    \E p \in Procs : calls[p].caller = "debouncedSave" /\ ~Finished(calls[p])

\* the steps of the save-status indicator
StatusPaths ==
    {<<"idle", "saving">>, <<"saving", "saved">>, <<"saving", "error">>,
     <<"saved", "idle">>, <<"error", "idle">>}

\* C26: the save-status indicator only follows the paths idle -> saving ->
\* saved -> idle and idle -> saving -> error -> idle; it is never reset to
\* idle while a save is in flight and never shows saved or error for a save
\* that has not finished.
C26_SaveStatusPaths ==
    [][/\ saveStatus' # saveStatus => <<saveStatus, saveStatus'>> \in StatusPaths
       /\ SaveInFlight' => saveStatus' = "saving"]_vars

\* C27: when the saveMonth of the debounced save raises, the save status
\* becomes 'error' with its reset timer set, the in-memory months and the
\* current month are not changed, and no save is scheduled or started by the
\* failure; while the status is 'error' a reset timer is pending; a
\* saveMonth starts only from a timer of the debounced save.
C27_SaveFailureHandling ==
    [][/\ \A p \in Procs :
              (/\ calls[p].caller = "debouncedSave"
               /\ ~Finished(calls[p])
               /\ calls'[p].pc = "threw")
              => /\ saveStatus' = "error"
                 /\ ErrorResetDelay \in resetTimers'
                 /\ months' = months
                 /\ currentMonthId' = currentMonthId
                 /\ debounceTimers' = debounceTimers
                 /\ \A q \in Procs \ {p} : calls'[q] = calls[q]
       /\ saveStatus' = "error" => resetTimers' # {}
       /\ \A p \in Procs :
              (/\ Finished(calls[p])
               /\ calls'[p].caller = "debouncedSave"
               /\ ~Finished(calls'[p]))
              => \E t \in debounceTimers \ debounceTimers' :
                     /\ t.remaining = 0
                     /\ calls'[p].userId = t.userId
                     /\ calls'[p].month = t.monthData]_vars

\* C27 witness: a saveMonth of the debounced save raised, the status went
\* back to idle, the months are still in memory and nothing is pending
C27_Witness ==
    /\ \E p \in Procs : calls[p].caller = "debouncedSave" /\ calls[p].pc = "threw"
    /\ saveStatus = "idle"
    /\ resetTimers = {}
    /\ debounceTimers = {}
    /\ months # <<>>
    /\ \A p \in Procs : Finished(calls[p])

-----------------------------------------------------------------------------
(* Properties of the forms                                                  *)

\* the expenses in memory, scheduled for a save, and given to a saveMonth
\* in flight
ExpensesHeld ==
    UNION ({Range(months[i].expenses) : i \in DOMAIN months}
           \cup {Range(t.monthData.expenses) : t \in debounceTimers}
           \cup {Range(calls[p].month.expenses) :
                    p \in {q \in Procs : calls[q].kind = "saveMonth"
                                         /\ ~Finished(calls[q])}})

\* C28: adding or updating an expense with an empty name or an empty value
\* changes nothing: the months in memory are the same, no save is scheduled
\* and no call is made; and no expense with an empty name is in memory,
\* scheduled for a save or given to saveMonth.
C28_InvalidFormRejected ==
    [][/\ \A f \in RejectedExpenseForms :
              (AddExpense(f) \/ UpdateExpense(f))
              => /\ months' = months
                 /\ debounceTimers' = debounceTimers
                 /\ calls' = calls
                 /\ monthsTable' = monthsTable
                 /\ expensesTable' = expensesTable
       /\ \A e \in ExpensesHeld' : e.name # ""]_vars

\* C28 witness: two submissions of the expense form were rejected, one
\* expense being there to update: the month is as it was, nothing was ever
\* scheduled and no call was made
C28_Witness ==
    /\ actions = 2
    /\ burst = NoBurst
    /\ debounceTimers = {}
    /\ started = 0
    /\ months = <<MkMonth(Today, <<5000, 3000, FALSE>>, <<MkExpense(1, 2000, Today)>>)>>

\* C29: every salary and every expense value, in memory and in the remote
\* store, is >= 0.
C29_AmountsNonNegative ==
    /\ \A i \in DOMAIN months :
           /\ months[i].salary1 >= 0
           /\ months[i].salary2 >= 0
           /\ \A e \in Range(months[i].expenses) : e.value >= 0
    /\ \A r \in monthsTable : r.salary1 >= 0 /\ r.salary2 >= 0
    /\ \A r \in expensesTable : r.value >= 0

-----------------------------------------------------------------------------
(* Properties of the session                                                *)

\* C30: while no session is authenticated, the in-memory months are empty
\* and no month is current.
C30_LoggedOutHoldsNothing ==
    user = "" => months = <<>> /\ currentMonthId = ""

-----------------------------------------------------------------------------
(* Properties of the full load                                              *)

\* the positions (month, expense) of a getMonths result that hold the
\* expense with the given id
ExpenseHits(result, id) ==
    {<<i, j>> \in UNION {{<<i, j>> : j \in DOMAIN result[i].expenses} : i \in DOMAIN result} :
        result[i].expenses[j].id = id}

\* C31: full load join. A getMonths(userId) whose reads both succeeded
\* returns one Month per Month row of the user, with the row's month code as
\* id; every Expense row of one of those rows is in exactly one returned
\* Month, the one of its parent row, and in no other; a row without
\* expenses gives an empty list and a user without rows an empty sequence.
C31_FullLoadJoin ==
    \A p \in Procs :
        (calls[p].kind = "getMonths" /\ calls[p].pc = "returned")
        => LET result == calls[p].result
               rows == SelectMonths(monthsTable, calls[p].userId)
               children == SelectExpensesIn(expensesTable, {r.id : r \in rows}) IN
           /\ Len(result) = Cardinality(rows)
           /\ \A r \in rows :
                  \E i \in DOMAIN result :
                      /\ result[i].id = r.month_code
                      /\ Hits(result, r.month_code) = {i}
                      /\ Range(result[i].expenses)
                             = {ExpenseOfRow(e) : e \in {x \in children : x.month_id = r.id}}
                      /\ \A e \in {x \in children : x.month_id = r.id} :
                             \E j \in DOMAIN result[i].expenses :
                                 ExpenseHits(result, e.id) = {<<i, j>>}
           /\ rows = {} => result = <<>>

\* C31 witness: a getMonths returned two months, one with expenses and one
\* without
C31_Witness ==
    \E p \in Procs :
        /\ calls[p].kind = "getMonths"
        /\ calls[p].pc = "returned"
        /\ Len(calls[p].result) = 2
        /\ \E i, j \in DOMAIN calls[p].result :
               /\ Len(calls[p].result[i].expenses) = 2
               /\ calls[p].result[j].expenses = <<>>

-----------------------------------------------------------------------------
(* Properties of what the autosave writes                                   *)

\* a step in which the save trigger called the debounced save
TriggerStep == burst' # burst /\ burst'.n > 0 /\ burst'.since = 0

\* C32: the month the autosave is triggered with is, at the moment of the
\* trigger, one of the in-memory months.
C32_AutosaveWritesRealMonths ==
    [][TriggerStep => burst'.args.monthData \in Range(months')]_vars

-----------------------------------------------------------------------------
(* Properties of the ids in memory                                          *)

\* C33: no two in-memory months have the same id, and creating a month
\* whose id exists selects that month and leaves the months unchanged.
C33_MonthIdsUnique ==
    [][/\ \A i, j \in DOMAIN months' : months'[i].id = months'[j].id => i = j
       /\ (handleCreateSpecificMonth /\ \E id \in NewMonthIds : HasMonth(months, id))
          => /\ months' = months
             /\ currentMonthId' \in NewMonthIds]_vars

\* C33 witness: the created month is in memory with the first one, and it
\* is current again after another month was selected
C33_Witness ==
    /\ Len(months) = 2
    /\ actions = 3
    /\ currentMonthId \in NewMonthIds
    /\ months[2].id = currentMonthId
    /\ burst.n = 3

\* the positions (month, expense) of the in-memory months ms
ExpensePositions(ms) ==
    UNION {{<<i, j>> : j \in DOMAIN ms[i].expenses} : i \in DOMAIN ms}

\* C34: no two expenses of the in-memory months have the same id, and
\* importing fixed expenses, into the current month or into a month being
\* created, leaves every other month as it was.
C34_ExpenseIdsUnique ==
    [][/\ \A a, b \in ExpensePositions(months') :
              months'[a[1]].expenses[a[2]].id = months'[b[1]].expenses[b[2]].id => a = b
       /\ (handleImportFixedExpenses \/ handleCreateSpecificMonth)
          => \A i \in DOMAIN months :
                 months[i].id # currentMonthId' => months'[i] = months[i]]_vars

\* C34 witness: the fixed expense of the first month was imported twice into
\* the second, at its creation and afterwards
C34_Witness ==
    /\ Len(months) = 2
    /\ Len(months[1].expenses) = 1
    /\ Len(months[2].expenses) = 2
    /\ \A j \in 1..2 :
           /\ months[2].expenses[j].name = months[1].expenses[1].name
           /\ months[2].expenses[j].id # months[1].expenses[1].id

-----------------------------------------------------------------------------
(* Properties of the imported dates                                         *)

\* the number of days of month (1-12) of year
DaysInMonth(year, month) ==
    IF month \in {4, 6, 9, 11} THEN 30
    ELSE IF month # 2 THEN 31
    ELSE IF year % 4 = 0 /\ (year % 100 # 0 \/ year % 400 = 0) THEN 29
    ELSE 28

\* str is YYYY-MM-DD and names a day of the month of target
IsDateIn(str, target) ==
    /\ Len(str) = 10
    /\ str[5] = Hyphen /\ str[8] = Hyphen
    /\ \A i \in {1, 2, 3, 4, 6, 7, 9, 10} : IsDigit(str[i])
    /\ NumberOf(SubSeq(str, 1, 4)) = target.year
    /\ NumberOf(SubSeq(str, 6, 7)) = target.month + 1
    /\ NumberOf(SubSeq(str, 9, 10)) \in 1..DaysInMonth(target.year, target.month + 1)

\* C35: the date given to an expense imported into a target month is a
\* YYYY-MM-DD string naming a real day of that month.
C35_ImportedDatesValid ==
    ret.fn = "importedDate"
    => \A k \in 1..2 : IsDateIn(ret.value[k], arg.target)

-----------------------------------------------------------------------------
(* Properties of the two save modes together                                *)

\* C36: when a saveMonth that ran alone, every remote call succeeding, found
\* for its month Expense rows left by a saveMonths (rows with ids the store
\* generated) and returns, a getMonths of the store returns for that month
\* exactly the client's expenses, one per client expense.
C36_SaveModesCompose ==
    [][\A p \in Procs :
        (/\ calls[p].kind = "saveMonth"
         /\ ~Finished(calls[p])
         /\ \E n \in 1..generated : GeneratedId(n) \in calls[p].existingIds
         /\ calls'[p].pc = "returned"
         /\ calls'[p].failed = {}
         /\ ~calls'[p].overlapped)
        => LET m == calls[p].month
               loaded == LoadedMonths(monthsTable', expensesTable', calls[p].userId)
           IN  /\ Cardinality(Hits(loaded, m.id)) = 1
               /\ \A i \in Hits(loaded, m.id) :
                      /\ Len(loaded[i].expenses) = Len(m.expenses)
                      /\ Range(loaded[i].expenses) = Range(m.expenses)]_vars

\* C36 witness: a saveMonths inserted two expense rows, and the saveMonth
\* that followed returned with the store holding the two client expenses
C36_Witness ==
    /\ generated >= 2
    /\ Cardinality(expensesTable) = 2
    /\ \A e \in expensesTable : e.id > 0
    /\ \E p \in Procs :
           /\ calls[p].kind = "saveMonth"
           /\ calls[p].pc = "returned"
           /\ calls[p].failed = {}
           /\ Len(calls[p].month.expenses) = 2

-----------------------------------------------------------------------------
(* Properties of the writes and the session                                 *)

\* C37: no saveMonth or saveMonths call is issued while no session is
\* authenticated.
C37_NoWriteAfterLogout ==
    [][\A p \in Procs :
        (/\ Finished(calls[p])
         /\ IsSave(calls'[p])
         /\ ~Finished(calls'[p]))
        => user' # ""]_vars

-----------------------------------------------------------------------------
(* Properties of the first load                                             *)

\* the step in which the getMonths of loadData, in slot p, returns
LoadReturns(p) ==
    /\ calls[p].caller = "loadData"
    /\ calls[p].kind = "getMonths"
    /\ ~Finished(calls[p])
    /\ calls'[p].kind # "getMonths" \/ calls'[p].pc = "returned"

\* C38: when the getMonths of loadData returns no month, the in-memory
\* months become the one month of today, with salaries 0, no expenses and
\* not closed, it is current, and saveMonths is called with it; when it
\* returns months, the in-memory months are the loaded ones and the current
\* month is today's if it is among them, the one with the greatest id
\* otherwise.
C38_FirstLoad ==
    [][\A p \in Procs :
        LoadReturns(p)
        => LET rows == SelectMonths(monthsTable, calls[p].userId) IN
           IF rows = {}
           THEN /\ months' = <<[id |-> Today, label |-> getMonthLabel(Today),
                                salary1 |-> 0, salary2 |-> 0, expenses |-> <<>>,
                                closed |-> FALSE]>>
                /\ currentMonthId' = Today
                /\ calls'[p].kind = "saveMonths"
                /\ ~Finished(calls'[p])
                /\ calls'[p].userId = calls[p].userId
                /\ calls'[p].months = months'
           ELSE /\ Len(months') = Cardinality(rows)
                /\ \A r \in rows :
                       \E i \in DOMAIN months' :
                           /\ months'[i].id = r.month_code
                           /\ months'[i].salary1 = r.salary1
                           /\ months'[i].salary2 = r.salary2
                           /\ months'[i].closed = r.closed
                           /\ Range(months'[i].expenses)
                                  = {ExpenseOfRow(e) :
                                         e \in {x \in expensesTable : x.month_id = r.id}}
                /\ IF \E r \in rows : r.month_code = Today
                   THEN currentMonthId' = Today
                   ELSE /\ \E r \in rows : r.month_code = currentMonthId'
                        /\ \A r \in rows :
                               MonthOrdinal(r.month_code) <= MonthOrdinal(currentMonthId')]_vars

\* C38 witness: the store held two months of the user, none of them
\* today's, and after the load the later one is current
C38_Witness ==
    /\ user = "u1"
    /\ ~dataLoading
    /\ Len(months) = 2
    /\ \A i \in DOMAIN months : months[i].id # Today
    /\ currentMonthId = "2025-05"
    /\ actions = 1

=============================================================================
